---- MODULE Spec2Model ----
(***************************************************************************)
(* jimirOS scheduling core.                                                *)
(*                                                                         *)
(*   kernel/sched/sched.c  - preemptive kernel thread scheduler            *)
(*   kernel/sched/htas.c   - HTAS topology, profiles, process-level picks  *)
(*   kernel/sched/htas_benchmark.c - synthetic workload, aging test        *)
(*                                                                         *)
(* Specifications:                                                         *)
(*   Spec        sched.c, every public call runs to completion             *)
(*   SpecAging   Spec with the ticks each slot has stayed READY recorded   *)
(*   SpecSelect  select_next as a pure function of an arbitrary table      *)
(*   SpecIrq     sched_yield statement by statement under the timer IRQ    *)
(*   SpecAffinity  htas_calculate_affinity as a pure function              *)
(*   SpecProfile   one sys_sched_set_profile call on a process table       *)
(*   SpecSim       simulate_workload, run after run, tick by tick          *)
(*   SpecPick      htas_pick_next_process / htas_record_switch ticks       *)
(*   SpecAgingTest htas_run_aging_benchmark, iteration by iteration        *)
(*   SpecFull      htas_run_full_benchmark, three phases of 15000 ticks    *)
(*   SpecBaseline  baseline_select_next applied to a table and a cursor    *)
(*   SpecFairPick  SpecPick's tick under SCHED_HTAS, weakly fair            *)
(*   SpecCreate    one kthread_create call on a thread table               *)
(*   SpecSlice     Spec with the ticks the running thread ran in a row     *)
(*   SpecFairTick  sched.c under a weakly fair timer tick                  *)
(***************************************************************************)
EXTENDS Integers, Sequences, FiniteSets, TLC

(***************************************************************************)
(* Bounds of the model                                                     *)
(***************************************************************************)
\* Number of thread-table slots explored (a prefix of the MAX_THREADS table).
MaxThreads == 3
\* sched_tick is not explored once a READY thread has waited this long.
MaxWait == 34
\* Timer IRQs delivered in one behaviour of SpecIrq.
MaxIrq == 6
\* Number of thread-table slots explored under the fair timer (SpecFairTick).
MaxFairThreads == 4
\* Number of process-table slots explored (a prefix of the MAX_PROCESSES table).
MaxProcs == 2
\* Ticks of the longest simulate_workload run explored.
MaxSimTicks == 28
\* simulate_workload runs started in one behaviour of SpecSim.
MaxSimRuns == 3
\* Scheduler ticks of the process level in one behaviour of SpecPick.
MaxPickTicks == 3
\* Cross-node memory accesses in one behaviour of SpecPick.
MaxPickAccesses == 1
\* Number of process-table slots of the tables baseline_select_next is applied
\* to in SpecBaseline.
MaxRRProcs == 3
\* Iterations of the loop of simulate_workload taken in one step of SpecFull.
MaxChunkTicks == 10

(***************************************************************************)
(* sched.h / sched.c constants                                             *)
(***************************************************************************)
SCHED_PRIORITY_REALTIME == 0
SCHED_PRIORITY_INTERACTIVE == 1
SCHED_PRIORITY_BACKGROUND == 2
SCHED_PRIORITY_BATCH == 3
SCHED_PRIORITY_LEVELS == 4
AGING_THRESHOLD == 32
DEFAULT_PRIORITY == SCHED_PRIORITY_INTERACTIVE
\* uint16_t wait_ticks wraps at 2^16
WaitTicksMod == 65536

priority_quantum == [p \in 0..(SCHED_PRIORITY_LEVELS - 1) |->
                       CASE p = 0 -> 4 [] p = 1 -> 6 [] p = 2 -> 10 [] p = 3 -> 18]

T_UNUSED == "UNUSED"
T_READY == "READY"
T_RUNNING == "RUNNING"
T_BLOCKED == "BLOCKED"

\* The process table; the process in slot i has pid i.
Procs == 1..MaxProcs

Slots == 0..(MaxThreads - 1)
\* The loops of sched.c that start at slot 1.
WorkerSlots == 1..(MaxThreads - 1)

VARIABLES
    th,        \* struct kthread th[MAX_THREADS] (state, priority, slice_left, wait_ticks)
    current,   \* static int current
    age,       \* history (SpecAging): sched_tick calls each slot has stayed READY through
               \* (SpecSlice): sched_tick calls the RUNNING thread has run through
               \* since it last became READY or had sched_set_priority applied
    sel,       \* SpecSelect: <<value select_next returned>>, empty before the call
    cpu,       \* SpecIrq: the stack the CPU executes on (the slot it was made for)
    pc,        \* SpecIrq: per stack, the line of sched_yield it stands at, or "run"
    ynext,     \* SpecIrq: per stack, sched_yield's local next
    yprev,     \* SpecIrq: per stack, sched_yield's local prev
    esp,       \* SpecIrq: th[i].esp, as the stack whose context was saved there
    valid,     \* SpecIrq: th[i].esp is the saved context of a suspended stack
    nirq,      \* SpecIrq: timer IRQs delivered so far
               \* (SpecFairTick): their parity
    procs,     \* SpecProfile: the process table (state, htas_info)
    pre,       \* SpecProfile: the process table before the last call
    pret,      \* SpecProfile: <<pid, profile, alloc_ok, return value>> of the last call
    aprof,     \* SpecAffinity: the task_profile_t passed to htas_calculate_affinity
    aff,       \* SpecAffinity: <<mask returned>>, empty before the call
    ctx,       \* SpecSim: sim_context_t ctx of simulate_workload
    stats,     \* SpecSim: the scheduler_stats_t the caller passed as stats
    stype,     \* SpecSim: the scheduler_type_t of the running simulate_workload
    duration_ms,  \* SpecSim: the duration_ms of the running simulate_workload
    sphase,    \* SpecSim: where simulate_workload stands in its tick loop
    assigned,  \* SpecSim: int assigned[NUM_CPUS] of the tick
    hist,      \* SpecSim history: per-CPU assignment of the previous tick, the
               \* cells that changed, the cross-node ticks of each task
    runs,      \* SpecSim history: per policy, <<stats of its first finished run>>
    nrun,      \* SpecSim: simulate_workload calls started so far
    g_current_scheduler,  \* htas.c: static scheduler_type_t g_current_scheduler
    g_current_cpu,        \* htas.c: static uint8_t g_current_cpu
    g_stats,   \* htas.c: g_baseline_stats and g_htas_stats
    pcur,      \* SpecPick: the pid process_current() returns
    plast,     \* SpecPick history: the last operation and the state before it
    rr_cursor, \* htas.c: static int rr_cursor of baseline_select_next
    g_tick_counter,  \* htas.c: static uint64_t g_tick_counter
    bench      \* SpecAgingTest: the locals of htas_run_aging_benchmark

irqvars == <<cpu, pc, ynext, yprev, esp, valid, nirq>>
simvars == <<ctx, stats, stype, duration_ms, sphase, assigned, hist, runs, nrun>>
pickvars == <<g_current_scheduler, g_current_cpu, g_stats, rr_cursor, g_tick_counter,
             pcur, plast>>
\* The variables of the benchmark and process-level specifications.
benchvars == <<simvars, pickvars, bench>>
profvars == <<procs, pre, pret, aprof, aff, benchvars>>
\* The variables of the single-call specifications.
callvars == <<sel, procs, pre, pret, aprof, aff, benchvars>>
vars == <<th, current, age, sel, cpu, pc, ynext, yprev, esp, valid, nirq,
          procs, pre, pret, aprof, aff, ctx, stats, stype, duration_ms, sphase,
          assigned,
          hist, runs, nrun, g_current_scheduler, g_current_cpu, g_stats,
          rr_cursor, g_tick_counter, pcur, plast, bench>>

\* 3 * AGING_THRESHOLD ticks, the promotion horizon; age is counted up to it.
AgeHorizon == 3 * AGING_THRESHOLD

\* memset(th, 0, sizeof(th)): an all-zero slot.
ZeroThread == [state |-> T_UNUSED, priority |-> 0, slice_left |-> 0, wait_ticks |-> 0]

(***************************************************************************)
(* htas.h / htas.c: topology, profiles                                     *)
(***************************************************************************)
NUM_CPUS == 4
NUM_NUMA_NODES == 2
LOW_LATENCY_PRIORITY_BOOST == 10
HTAS_AGING_THRESHOLD == 100
AGING_PRIORITY_BOOST == 5

CPU_TYPE_PCORE == "PCORE"
CPU_TYPE_ECORE == "ECORE"

PROFILE_PERFORMANCE == 0
PROFILE_EFFICIENCY == 1
PROFILE_LOW_LATENCY == 2
PROFILE_DEFAULT == 3
Intents == {PROFILE_PERFORMANCE, PROFILE_EFFICIENCY, PROFILE_LOW_LATENCY, PROFILE_DEFAULT}

Cpus == 0..(NUM_CPUS - 1)

\* g_cpu_topology[]
g_cpu_topology ==
    [c \in Cpus |->
        IF c < 2 THEN [type |-> CPU_TYPE_PCORE, numa_node |-> 0]
        ELSE [type |-> CPU_TYPE_ECORE, numa_node |-> 1]]

\* 0x08000000, the size of each NUMA region
NumaRegionSize == 134217728

\* g_numa_regions[]
g_numa_regions ==
    [n \in 0..(NUM_NUMA_NODES - 1) |-> [base |-> n * NumaRegionSize, size |-> NumaRegionSize]]

\* (void*)0
NULL == 0

\* htas_get_numa_node_for_address: the loop from region i on.  base + size is
\* at most 0x10000000, so the uint32_t sum does not wrap.
RECURSIVE numa_scan(_, _)
numa_scan(address, i) ==
    IF i >= NUM_NUMA_NODES THEN 0
    ELSE IF /\ address >= g_numa_regions[i].base
            /\ address < g_numa_regions[i].base + g_numa_regions[i].size
         THEN i
         ELSE numa_scan(address, i + 1)

\* htas_get_numa_node_for_address(addr)
htas_get_numa_node_for_address(addr) == numa_scan(addr, 0)

\* 1 << i
Bit(i) == 2 ^ i

\* Bit i of mask m is set.
HasBit(m, i) == (m \div Bit(i)) % 2 = 1

\* m | (1 << i)
OrBit(m, i) == IF HasBit(m, i) THEN m ELSE m + Bit(i)

\* a & b, over the NUM_CPUS low bits (no mask of htas.c has a higher bit).
RECURSIVE and_from(_, _, _)
and_from(a, b, i) ==
    IF i >= NUM_CPUS THEN 0
    ELSE (IF HasBit(a, i) /\ HasBit(b, i) THEN Bit(i) ELSE 0) + and_from(a, b, i + 1)

BitAnd(a, b) == and_from(a, b, 0)

\* for (i...) if (g_cpu_topology[i].type == type) mask |= (1 << i);
RECURSIVE type_mask(_, _, _)
type_mask(type, i, mask) ==
    IF i >= NUM_CPUS THEN mask
    ELSE type_mask(type, i + 1,
                   IF g_cpu_topology[i].type = type THEN OrBit(mask, i) ELSE mask)

\* for (i...) if (g_cpu_topology[i].numa_node == numa_node) numa_mask |= (1 << i);
RECURSIVE numa_mask(_, _, _)
numa_mask(node, i, mask) ==
    IF i >= NUM_CPUS THEN mask
    ELSE numa_mask(node, i + 1,
                   IF g_cpu_topology[i].numa_node = node THEN OrBit(mask, i) ELSE mask)

\* intent_mask with the case label PROFILE_LOW_LATENCY missing from the switch.
intent_mask_no_low_latency(intent) ==
    CASE intent = PROFILE_PERFORMANCE -> type_mask(CPU_TYPE_PCORE, 0, 0)
      [] intent = PROFILE_EFFICIENCY -> type_mask(CPU_TYPE_ECORE, 0, 0)
      [] intent = PROFILE_DEFAULT -> Bit(NUM_CPUS) - 1
      [] OTHER -> 0

\* htas_calculate_affinity lines 107-128: the switch on the intent.
intent_mask(intent) ==
    CASE intent = PROFILE_PERFORMANCE -> type_mask(CPU_TYPE_PCORE, 0, 0)
      [] intent = PROFILE_LOW_LATENCY -> type_mask(CPU_TYPE_PCORE, 0, 0)
      [] intent = PROFILE_EFFICIENCY -> type_mask(CPU_TYPE_ECORE, 0, 0)
      [] intent = PROFILE_DEFAULT -> Bit(NUM_CPUS) - 1
      [] OTHER -> 0

\* affinity_fallback without the retry: the empty mask is returned.
affinity_no_fallback(intent) == 0 * intent

\* htas_calculate_affinity lines 142-148: the NUMA restriction left no CPU, so
\* the function calls itself with primary_data_region = NULL.
affinity_fallback(intent) == intent_mask(intent)

\* htas_calculate_affinity(profile)
htas_calculate_affinity(profile) ==
    IF profile.primary_data_region # NULL
    THEN LET node == htas_get_numa_node_for_address(profile.primary_data_region)
             mask == BitAnd(intent_mask(profile.intent), numa_mask(node, 0, 0))
         IN IF mask = 0 THEN affinity_fallback(profile.intent) ELSE mask
    ELSE intent_mask(profile.intent)

\* process.h: process states used by htas.c
PROC_UNUSED == "UNUSED"
PROC_READY == "READY"
PROC_RUNNING == "RUNNING"
\* Any other state of a slot in use: neither READY nor RUNNING.
PROC_BLOCKED == "BLOCKED"

\* proc->htas_info == NULL
NoInfo == [null |-> TRUE]

\* memset(proc->htas_info, 0, sizeof(htas_task_info_t))
ZeroInfo ==
    [null |-> FALSE,
     profile |-> [intent |-> 0, primary_data_region |-> NULL, data_size |-> 0],
     cpu_affinity_mask |-> 0, priority_boost |-> 0, preferred_numa_node |-> 0,
     wait_time |-> 0, priority_boost_aging |-> 0,
     total_runtime_us |-> 0, total_switches |-> 0, numa_penalties |-> 0]

\* profile_fields with the memset of line 176 done on every call.
profile_fields_memset(info, profile) ==
    [null |-> FALSE,
     profile |-> profile,
     cpu_affinity_mask |-> htas_calculate_affinity(profile),
     priority_boost |-> IF profile.intent = PROFILE_LOW_LATENCY
                        THEN LOW_LATENCY_PRIORITY_BOOST ELSE 0,
     preferred_numa_node |-> IF profile.primary_data_region # NULL
                             THEN htas_get_numa_node_for_address(profile.primary_data_region)
                             ELSE 0,
     wait_time |-> 0, priority_boost_aging |-> 0,
     total_runtime_us |-> 0, total_switches |-> 0, numa_penalties |-> 0]

\* sys_sched_set_profile lines 179-198: the fields written on success.
profile_fields(info, profile) ==
    [info EXCEPT
        !.profile = profile,
        !.cpu_affinity_mask = htas_calculate_affinity(profile),
        !.priority_boost = IF profile.intent = PROFILE_LOW_LATENCY
                           THEN LOW_LATENCY_PRIORITY_BOOST ELSE 0,
        !.preferred_numa_node = IF profile.primary_data_region # NULL
                                THEN htas_get_numa_node_for_address(profile.primary_data_region)
                                ELSE 0]

(***************************************************************************)
(* Helpers of sched.c, as functions of the thread table                    *)
(***************************************************************************)
\* The number of slots of thread table t, MAX_THREADS in sched.c.
TableSize(t) == Cardinality(DOMAIN t)

\* refill_slice(tid)
refill_slice(t, tid) ==
    IF tid < 0 \/ tid >= TableSize(t) THEN t
    ELSE [t EXCEPT ![tid].slice_left = priority_quantum[t[tid].priority]]

\* apply_aging without the promotion: the wait starts again and the priority
\* stays.
apply_aging_keeps_priority(t) ==
    [i \in DOMAIN t |->
        IF /\ i >= 1
           /\ t[i].state = T_READY
           /\ t[i].wait_ticks >= AGING_THRESHOLD
           /\ t[i].priority > SCHED_PRIORITY_REALTIME
        THEN [t[i] EXCEPT !.wait_ticks = 0]
        ELSE t[i]]

\* apply_aging with > in place of >= in the threshold test.
apply_aging_gt(t) ==
    [i \in DOMAIN t |->
        IF /\ i >= 1
           /\ t[i].state = T_READY
           /\ t[i].wait_ticks > AGING_THRESHOLD
           /\ t[i].priority > SCHED_PRIORITY_REALTIME
        THEN [t[i] EXCEPT !.priority = t[i].priority - 1,
                          !.wait_ticks = 0,
                          !.slice_left = priority_quantum[t[i].priority - 1]]
        ELSE t[i]]

\* apply_aging without the reset of wait_ticks on promotion.
apply_aging_keeps_wait(t) ==
    [i \in DOMAIN t |->
        IF /\ i >= 1
           /\ t[i].state = T_READY
           /\ t[i].wait_ticks >= AGING_THRESHOLD
           /\ t[i].priority > SCHED_PRIORITY_REALTIME
        THEN [t[i] EXCEPT !.priority = t[i].priority - 1,
                          !.slice_left = priority_quantum[t[i].priority - 1]]
        ELSE t[i]]

\* apply_aging(): each slot 1.. is examined once and independently.
apply_aging(t) ==
    [i \in DOMAIN t |->
        IF /\ i >= 1
           /\ t[i].state = T_READY
           /\ t[i].wait_ticks >= AGING_THRESHOLD
           /\ t[i].priority > SCHED_PRIORITY_REALTIME
        THEN [t[i] EXCEPT !.priority = t[i].priority - 1,
                          !.wait_ticks = 0,
                          !.slice_left = priority_quantum[t[i].priority - 1]]
        ELSE t[i]]

\* select_better with >= in the wait_ticks comparison: a later slot wins a tie.
select_better_ge(t, i, best, best_prio, best_wait) ==
    \/ best < 0
    \/ t[i].priority < best_prio
    \/ (t[i].priority = best_prio /\ t[i].wait_ticks >= best_wait)

\* select_next line 176: slot i replaces the best candidate so far.
select_better(t, i, best, best_prio, best_wait) ==
    \/ best < 0
    \/ t[i].priority < best_prio
    \/ (t[i].priority = best_prio /\ t[i].wait_ticks > best_wait)

\* The body of select_next's loop from slot i on, with the loop's locals.
RECURSIVE select_loop(_, _, _, _, _)
select_loop(t, i, best, best_prio, best_wait) ==
    IF i >= TableSize(t) THEN best
    ELSE IF /\ t[i].state = T_READY
            /\ select_better(t, i, best, best_prio, best_wait)
         THEN select_loop(t, i + 1, i, t[i].priority, t[i].wait_ticks)
         ELSE select_loop(t, i + 1, best, best_prio, best_wait)

\* select_next with a loop that starts at slot 0.
select_next_from_zero(t) == select_loop(t, 0, -1, SCHED_PRIORITY_LEVELS, -1)

\* select_next()
select_next(t) == select_loop(t, 1, -1, SCHED_PRIORITY_LEVELS, -1)

\* yield_switch without line 112: prev is left RUNNING.
yield_switch_prev_running(t, prev, next) ==
    LET t1 == [t EXCEPT ![prev].wait_ticks = 0]
        t2 == refill_slice(t1, prev)
        t3 == [t2 EXCEPT ![next].state = T_RUNNING, ![next].wait_ticks = 0]
    IN refill_slice(t3, next)

\* yield_switch that frees the slot of the thread switched out.
yield_switch_frees_prev(t, prev, next) ==
    LET t1 == [t EXCEPT ![prev] = ZeroThread]
        t3 == [t1 EXCEPT ![next].state = T_RUNNING, ![next].wait_ticks = 0]
    IN refill_slice(t3, next)

\* sched_yield lines 111-118: the table after current hands over to next.
yield_switch(t, prev, next) ==
    LET t1 == [t EXCEPT ![prev].state = T_READY, ![prev].wait_ticks = 0]
        t2 == refill_slice(t1, prev)
        t3 == [t2 EXCEPT ![next].state = T_RUNNING, ![next].wait_ticks = 0]
    IN refill_slice(t3, next)

\* sched_yield() run to completion: <<table, current>> afterwards.
yield_result(t, cur) ==
    LET t1 == apply_aging(t)
        next == select_next(t1)
    IN IF next < 0 \/ next = cur THEN <<t1, cur>>
       ELSE <<yield_switch(t1, cur, next), next>>

\* sched_tick line 124-128: READY threads other than current wait one more tick.
tick_wait(t, cur) ==
    [i \in DOMAIN t |->
        IF i >= 1 /\ i # cur /\ t[i].state = T_READY
        THEN [t[i] EXCEPT !.wait_ticks = (t[i].wait_ticks + 1) % WaitTicksMod]
        ELSE t[i]]

\* A tick that does not charge the running thread.
tick_slice_free(t, cur) == t

\* sched_tick line 129
tick_slice(t, cur) ==
    IF t[cur].slice_left > 0
    THEN [t EXCEPT ![cur].slice_left = t[cur].slice_left - 1]
    ELSE t

\* tick_preempts with <= in the priority comparison: an equal-priority
\* candidate preempts before the slice is used up.
tick_preempts_le(t, cur, next) ==
    /\ next >= 0
    /\ \/ t[next].priority <= t[cur].priority
       \/ t[cur].slice_left = 0

\* sched_tick line 132: the preemption test, on the aged table.
tick_preempts(t, cur, next) ==
    /\ next >= 0
    /\ \/ t[next].priority < t[cur].priority
       \/ t[cur].slice_left = 0

\* sched_tick() run to completion: <<table, current>> afterwards.
tick_result(t, cur) ==
    LET t1 == apply_aging(tick_slice(tick_wait(t, cur), cur))
        next == select_next(t1)
    IN IF tick_preempts(t1, cur, next)
       THEN yield_result([t1 EXCEPT ![cur].slice_left = priority_quantum[t1[cur].priority]], cur)
       ELSE IF t1[cur].slice_left = 0 THEN <<refill_slice(t1, cur), cur>>
            ELSE <<t1, cur>>

\* The last UNUSED slot in 1.., or -1.
last_unused(t) ==
    IF \E i \in DOMAIN t \ {0} : t[i].state = T_UNUSED
    THEN CHOOSE i \in DOMAIN t \ {0} :
            /\ t[i].state = T_UNUSED
            /\ \A j \in DOMAIN t \ {0} : j > i => t[j].state # T_UNUSED
    ELSE -1

\* kthread_create: the first UNUSED slot in 1.., or -1.
first_unused(t) ==
    IF \E i \in DOMAIN t \ {0} : t[i].state = T_UNUSED
    THEN CHOOSE i \in DOMAIN t \ {0} :
            /\ t[i].state = T_UNUSED
            /\ \A j \in DOMAIN t \ {0} : j < i => t[j].state # T_UNUSED
    ELSE -1

(***************************************************************************)
(* The public calls of sched.c, each run to completion (th and current)    *)
(***************************************************************************)
\* sched_init()
InitThreads ==
    [i \in Slots |->
        IF i = 0
        THEN [state |-> T_RUNNING, priority |-> SCHED_PRIORITY_BATCH,
              slice_left |-> priority_quantum[SCHED_PRIORITY_BATCH], wait_ticks |-> 0]
        ELSE ZeroThread]

\* kthread_create(fn, arg, name) with a successful stack allocation
kthread_create_ok ==
    LET i == first_unused(th) IN
    /\ i >= 0
    /\ th' = [th EXCEPT ![i] = [state |-> T_READY, priority |-> DEFAULT_PRIORITY,
                                slice_left |-> priority_quantum[DEFAULT_PRIORITY],
                                wait_ticks |-> 0]]
    /\ UNCHANGED current

\* kthread_create returning -1: no free slot, or kmalloc failed for the stack
kthread_create_fail ==
    /\ UNCHANGED <<th, current>>

\* sched_set_priority's three early returns
set_priority_rejects(t, pid, priority) ==
    \/ pid < 0 \/ pid >= MaxThreads
    \/ priority < SCHED_PRIORITY_REALTIME \/ priority >= SCHED_PRIORITY_LEVELS
    \/ t[pid].state = T_UNUSED

\* sched_set_priority(pid, priority)
sched_set_priority(pid, priority) ==
    /\ IF set_priority_rejects(th, pid, priority)
       THEN UNCHANGED th
       ELSE th' = refill_slice([th EXCEPT ![pid].priority = priority,
                                          ![pid].wait_ticks = 0], pid)
    /\ UNCHANGED current

\* sched_yield()
sched_yield ==
    LET r == yield_result(th, current) IN
    /\ th' = r[1]
    /\ current' = r[2]

\* sched_tick(); not explored past MaxWait waited ticks
sched_tick ==
    /\ current >= 0
    /\ \A i \in Slots : th[i].wait_ticks < MaxWait
    /\ LET r == tick_result(th, current) IN
        /\ th' = r[1]
        /\ current' = r[2]

\* Arguments explored for sched_set_priority: every slot and priority, and one
\* value off each end.
PidArgs == (-1)..MaxThreads
PriorityArgs == (-1)..SCHED_PRIORITY_LEVELS

(***************************************************************************)
(* Spec                                                                    *)
(***************************************************************************)
\* The SpecIrq variables after sched_init: the CPU is on the bootstrap stack,
\* outside sched_yield; memset left every th[i].esp 0.
InitIrq ==
    /\ cpu = 0
    /\ pc = [i \in Slots |-> "run"]
    /\ ynext = [i \in Slots |-> -1]
    /\ yprev = [i \in Slots |-> -1]
    /\ esp = [i \in Slots |-> -1]
    /\ valid = [i \in Slots |-> FALSE]
    /\ nirq = 0

\* The SpecProfile variables where no process exists.
InitProcsIdle ==
    /\ procs = [i \in Procs |-> [state |-> PROC_UNUSED, htas_info |-> NoInfo]]
    /\ pre = procs
    /\ pret = <<>>

\* The SpecAffinity variables where htas_calculate_affinity is not explored.
InitAffIdle ==
    /\ aprof = [intent |-> PROFILE_DEFAULT, primary_data_region |-> NULL, data_size |-> 0]
    /\ aff = <<>>

\* scheduler_type_t
SCHED_BASELINE == 0
SCHED_HTAS == 1
SCHED_DYNAMIC == 2

\* The SpecSim variables where simulate_workload is not explored.
InitSimIdle ==
    /\ ctx = <<>>
    /\ stats = <<>>
    /\ stype = SCHED_BASELINE
    /\ duration_ms = 0
    /\ sphase = "idle"
    /\ assigned = <<>>
    /\ hist = <<>>
    /\ runs = {}
    /\ nrun = 0

\* The SpecPick variables where htas_pick_next_process is not explored:
\* the statics of htas.c as they are initialised.
InitPickIdle ==
    /\ g_current_scheduler = SCHED_BASELINE
    /\ g_current_cpu = 0
    /\ g_stats = <<>>
    /\ rr_cursor = -1
    /\ g_tick_counter = 0
    /\ pcur = 0
    /\ plast = <<>>

\* The SpecAgingTest variable where htas_run_aging_benchmark is not explored.
InitAgingTestIdle == bench = <<>>

InitBenchIdle == InitSimIdle /\ InitPickIdle /\ InitAgingTestIdle

InitProfIdle == InitProcsIdle /\ InitAffIdle /\ InitBenchIdle

Init ==
    /\ th = InitThreads
    /\ current = 0
    /\ age = [i \in Slots |-> 0]
    /\ sel = <<>>
    /\ InitIrq
    /\ InitProfIdle

Next ==
    \/ kthread_create_ok /\ UNCHANGED <<age, irqvars, callvars>>
    \/ kthread_create_fail /\ UNCHANGED <<age, irqvars, callvars>>
    \/ \E pid \in PidArgs, priority \in PriorityArgs :
          sched_set_priority(pid, priority) /\ UNCHANGED <<age, irqvars, callvars>>
    \/ sched_yield /\ UNCHANGED <<age, irqvars, callvars>>
    \/ sched_tick /\ UNCHANGED <<age, irqvars, callvars>>

Spec == Init /\ [][Next]_vars

(***************************************************************************)
(* SpecAging: Spec with the history variable age                           *)
(***************************************************************************)
\* age after a sched_tick: a slot that is READY before and after the call has
\* stayed READY through one more tick (counted up to AgeHorizon).
age_tick(t, t2) ==
    [i \in Slots |->
        IF t[i].state = T_READY /\ t2[i].state = T_READY
        THEN IF age[i] < AgeHorizon THEN age[i] + 1 ELSE AgeHorizon
        ELSE 0]

\* age after any other call: it restarts for a slot that is not READY throughout.
age_keep(t, t2) ==
    [i \in Slots |->
        IF t[i].state = T_READY /\ t2[i].state = T_READY THEN age[i] ELSE 0]

\* age after sched_set_priority(pid, priority): it restarts for an accepted pid.
age_set(t, t2, pid, priority) ==
    [i \in Slots |->
        IF i = pid /\ ~set_priority_rejects(t, pid, priority) THEN 0
        ELSE age_keep(t, t2)[i]]

\* Arguments explored for sched_set_priority under SpecAging: the two ends of
\* the priority range, applied to the threads that age.
AgingPriorityArgs == {SCHED_PRIORITY_REALTIME, SCHED_PRIORITY_BATCH}

NextAging ==
    \/ kthread_create_ok /\ age' = age_keep(th, th') /\ UNCHANGED <<irqvars, callvars>>
    \/ \E pid \in WorkerSlots, priority \in AgingPriorityArgs :
          /\ sched_set_priority(pid, priority)
          /\ age' = age_set(th, th', pid, priority)
          /\ UNCHANGED <<irqvars, callvars>>
    \/ sched_yield /\ age' = age_keep(th, th') /\ UNCHANGED <<irqvars, callvars>>
    \/ sched_tick /\ age' = age_tick(th, th') /\ UNCHANGED <<irqvars, callvars>>

SpecAging == Init /\ [][NextAging]_vars

(***************************************************************************)
(* SpecSelect: select_next applied to an arbitrary thread table            *)
(***************************************************************************)
\* wait_ticks values drawn for the table: the two ends of uint16_t.
SelectWaits == {0, WaitTicksMod - 1}
SelectStates == {T_UNUSED, T_READY, T_RUNNING, T_BLOCKED}

SelectWorker ==
    [state : SelectStates, priority : 0..(SCHED_PRIORITY_LEVELS - 1),
     slice_left : {0}, wait_ticks : SelectWaits]

\* Slot 0 is never examined by select_next; it is drawn READY or RUNNING.
SelectBoot ==
    [state : {T_READY, T_RUNNING}, priority : {SCHED_PRIORITY_REALTIME, SCHED_PRIORITY_BATCH},
     slice_left : {0}, wait_ticks : {0}]

InitSelect ==
    /\ th \in {t \in [Slots -> SelectWorker \cup SelectBoot] :
                 /\ t[0] \in SelectBoot
                 /\ \A i \in WorkerSlots : t[i] \in SelectWorker}
    /\ current = 0
    /\ age = [i \in Slots |-> 0]
    /\ sel = <<>>
    /\ InitIrq
    /\ InitProfIdle

\* int next = select_next();
select_call ==
    /\ sel = <<>>
    /\ sel' = <<select_next(th)>>
    /\ UNCHANGED <<th, current, age, irqvars, profvars>>

NextSelect == select_call

SpecSelect == InitSelect /\ [][NextSelect]_vars

(***************************************************************************)
(* SpecIrq: sched_yield statement by statement, the timer IRQ in between   *)
(*                                                                         *)
(* sched.c masks no interrupt, so sched_tick can run between any two       *)
(* statements of a cooperative sched_yield.  The handler itself runs to    *)
(* completion (the IRQ gate masks the timer), including its own call of    *)
(* sched_yield.  A stack is named by the slot it was allocated for; stack  *)
(* 0 is the bootstrap stack.                                               *)
(***************************************************************************)
\* The CPU after an undefined ctx_switch (a stale or never-written esp).
Crashed == -1

AllocatedStacks == {i \in Slots : th[i].state # T_UNUSED}

\* ctx_switch(&th[p].esp, th[n].esp): the context of the executing stack is
\* saved in th[p].esp and the context th[n].esp held is resumed.  Loading an
\* esp that holds no suspended context is undefined: any stack may end up
\* executing, or none.
ctx_switch(p, n) ==
    /\ esp' = [esp EXCEPT ![p] = cpu]
    /\ valid' = [[valid EXCEPT ![n] = FALSE] EXCEPT ![p] = TRUE]
    /\ IF valid[n]
       THEN cpu' = esp[n]
       ELSE cpu' \in AllocatedStacks \cup {Crashed}

\* The thread code running on the CPU is outside sched_yield.
InThread == cpu \in Slots /\ pc[cpu] = "run"

AtLine(l) == cpu \in Slots /\ pc[cpu] = l

Goto(l) == pc' = [pc EXCEPT ![cpu] = l]

\* kthread_create called by the running thread (stack allocation succeeds)
irq_kthread_create ==
    /\ InThread
    /\ kthread_create_ok
    /\ LET i == first_unused(th) IN
          /\ esp' = [esp EXCEPT ![i] = i]
          /\ valid' = [valid EXCEPT ![i] = TRUE]
    /\ UNCHANGED <<cpu, pc, ynext, yprev, nirq>>

\* the running thread calls sched_yield()
yield_call ==
    /\ InThread
    /\ Goto("y108")
    /\ UNCHANGED <<th, current, cpu, ynext, yprev, esp, valid, nirq>>

\* line 108: apply_aging();
yield_108 ==
    /\ AtLine("y108")
    /\ th' = apply_aging(th)
    /\ Goto("y109")
    /\ UNCHANGED <<current, cpu, ynext, yprev, esp, valid, nirq>>

\* line 109: int next = select_next();
yield_109 ==
    /\ AtLine("y109")
    /\ ynext' = [ynext EXCEPT ![cpu] = select_next(th)]
    /\ Goto("y110")
    /\ UNCHANGED <<th, current, cpu, yprev, esp, valid, nirq>>

\* line 110: if (next < 0 || next == current) return;
yield_110 ==
    /\ AtLine("y110")
    /\ IF ynext[cpu] < 0 \/ ynext[cpu] = current
       THEN Goto("run") /\ ynext' = [ynext EXCEPT ![cpu] = -1]
       ELSE Goto("y111") /\ UNCHANGED ynext
    /\ UNCHANGED <<th, current, cpu, yprev, esp, valid, nirq>>

\* line 111: int prev = current;
yield_111 ==
    /\ AtLine("y111")
    /\ yprev' = [yprev EXCEPT ![cpu] = current]
    /\ Goto("y112")
    /\ UNCHANGED <<th, current, cpu, ynext, esp, valid, nirq>>

\* line 112: th[prev].state = T_READY;
yield_112 ==
    /\ AtLine("y112")
    /\ th' = [th EXCEPT ![yprev[cpu]].state = T_READY]
    /\ Goto("y113")
    /\ UNCHANGED <<current, cpu, ynext, yprev, esp, valid, nirq>>

\* line 113: th[prev].wait_ticks = 0;
yield_113 ==
    /\ AtLine("y113")
    /\ th' = [th EXCEPT ![yprev[cpu]].wait_ticks = 0]
    /\ Goto("y114")
    /\ UNCHANGED <<current, cpu, ynext, yprev, esp, valid, nirq>>

\* line 114: refill_slice(prev);
yield_114 ==
    /\ AtLine("y114")
    /\ th' = refill_slice(th, yprev[cpu])
    /\ Goto("y115")
    /\ UNCHANGED <<current, cpu, ynext, yprev, esp, valid, nirq>>

\* line 115: th[next].state = T_RUNNING;
yield_115 ==
    /\ AtLine("y115")
    /\ th' = [th EXCEPT ![ynext[cpu]].state = T_RUNNING]
    /\ Goto("y116")
    /\ UNCHANGED <<current, cpu, ynext, yprev, esp, valid, nirq>>

\* line 116: th[next].wait_ticks = 0;
yield_116 ==
    /\ AtLine("y116")
    /\ th' = [th EXCEPT ![ynext[cpu]].wait_ticks = 0]
    /\ Goto("y117")
    /\ UNCHANGED <<current, cpu, ynext, yprev, esp, valid, nirq>>

\* line 117: refill_slice(next);
yield_117 ==
    /\ AtLine("y117")
    /\ th' = refill_slice(th, ynext[cpu])
    /\ Goto("y118")
    /\ UNCHANGED <<current, cpu, ynext, yprev, esp, valid, nirq>>

\* line 118: current = next;
yield_118 ==
    /\ AtLine("y118")
    /\ current' = ynext[cpu]
    /\ Goto("y119")
    /\ UNCHANGED <<th, cpu, ynext, yprev, esp, valid, nirq>>

\* line 119: ctx_switch(&th[prev].esp, th[next].esp); when this stack is
\* resumed the call returns, and sched_yield with it.
yield_119 ==
    /\ AtLine("y119")
    /\ ctx_switch(yprev[cpu], ynext[cpu])
    /\ Goto("run")
    /\ ynext' = [ynext EXCEPT ![cpu] = -1]
    /\ yprev' = [yprev EXCEPT ![cpu] = -1]
    /\ UNCHANGED <<th, current, nirq>>

\* The timer IRQ: sched_tick() on the executing stack, wherever it stands.  If
\* the handler's sched_yield switches, the interrupted stack is saved as it
\* stands (pc and locals kept) in th[current].esp.
irq_tick ==
    /\ cpu \in Slots
    /\ nirq < MaxIrq
    /\ nirq' = nirq + 1
    /\ sched_tick
    /\ IF current' # current
       THEN ctx_switch(current, current')
       ELSE UNCHANGED <<cpu, esp, valid>>
    /\ UNCHANGED <<pc, ynext, yprev>>

NextIrq ==
    \/ irq_kthread_create /\ UNCHANGED <<age, callvars>>
    \/ yield_call /\ UNCHANGED <<age, callvars>>
    \/ yield_108 /\ UNCHANGED <<age, callvars>>
    \/ yield_109 /\ UNCHANGED <<age, callvars>>
    \/ yield_110 /\ UNCHANGED <<age, callvars>>
    \/ yield_111 /\ UNCHANGED <<age, callvars>>
    \/ yield_112 /\ UNCHANGED <<age, callvars>>
    \/ yield_113 /\ UNCHANGED <<age, callvars>>
    \/ yield_114 /\ UNCHANGED <<age, callvars>>
    \/ yield_115 /\ UNCHANGED <<age, callvars>>
    \/ yield_116 /\ UNCHANGED <<age, callvars>>
    \/ yield_117 /\ UNCHANGED <<age, callvars>>
    \/ yield_118 /\ UNCHANGED <<age, callvars>>
    \/ yield_119 /\ UNCHANGED <<age, callvars>>
    \/ irq_tick /\ UNCHANGED <<age, callvars>>

SpecIrq == Init /\ [][NextIrq]_vars

(***************************************************************************)
(* SpecAffinity: htas_calculate_affinity applied to a profile              *)
(***************************************************************************)
\* Addresses passed as primary_data_region: NULL, the first and last byte
\* of each NUMA region and their neighbours, and addresses above both regions.
AddrSamples ==
    {NULL, 1, 4096, 67108864, NumaRegionSize - 1,
     NumaRegionSize, NumaRegionSize + 1, 201326592, 2 * NumaRegionSize - 1,
     2 * NumaRegionSize, 2 * NumaRegionSize + 1, 536870912, 2147483647}

SizeSamples == {0, 4096}

ProfileArgs ==
    [intent : Intents, primary_data_region : AddrSamples, data_size : SizeSamples]

InitAffinity ==
    /\ th = InitThreads
    /\ current = 0
    /\ age = [i \in Slots |-> 0]
    /\ sel = <<>>
    /\ InitIrq
    /\ InitProcsIdle
    /\ aprof \in ProfileArgs
    /\ aff = <<>>
    /\ InitBenchIdle

\* uint32_t mask = htas_calculate_affinity(&profile);
affinity_call ==
    /\ aff = <<>>
    /\ aff' = <<htas_calculate_affinity(aprof)>>
    /\ UNCHANGED <<th, current, age, sel, irqvars, procs, pre, pret, aprof, benchvars>>

NextAffinity == affinity_call

SpecAffinity == InitAffinity /\ [][NextAffinity]_vars

(***************************************************************************)
(* SpecProfile: one sys_sched_set_profile call on a process table          *)
(***************************************************************************)
\* process_find(pid): the live process with that pid, <<>> when there is none.
process_find(P, pid) ==
    IF pid \in DOMAIN P /\ P[pid].state # PROC_UNUSED THEN <<pid>> ELSE <<>>

\* alloc_info without the test of kmalloc's result.
alloc_info_unchecked(info, alloc_ok) ==
    IF info.null THEN ZeroInfo ELSE info

\* sys_sched_set_profile lines 170-177: proc->htas_info after the allocation
\* step; kmalloc returns NULL when alloc_ok is FALSE.
alloc_info(info, alloc_ok) ==
    IF info.null
    THEN (IF alloc_ok THEN ZeroInfo ELSE NoInfo)
    ELSE info

\* sys_sched_set_profile(pid, profile): <<process table after, return value>>
sys_sched_set_profile(P, pid, profile, alloc_ok) ==
    LET found == process_find(P, pid)
    IN IF found = <<>> THEN <<P, -1>>
       ELSE LET proc == found[1]
                info == alloc_info(P[proc].htas_info, alloc_ok)
            IN IF info.null
               THEN <<[P EXCEPT ![proc].htas_info = info], -1>>
               ELSE <<[P EXCEPT ![proc].htas_info = profile_fields(info, profile)], 0>>

\* Profiles a process may already carry when the call is made.
HeldProfiles ==
    { [intent |-> PROFILE_PERFORMANCE, primary_data_region |-> NULL, data_size |-> 0],
      [intent |-> PROFILE_LOW_LATENCY, primary_data_region |-> NumaRegionSize, data_size |-> 4096],
      [intent |-> PROFILE_EFFICIENCY, primary_data_region |-> 4096, data_size |-> 4096] }

\* <<wait_time, priority_boost_aging>> as htas_pick_next_process and
\* htas_record_switch leave them: the boost is set once wait_time passes
\* HTAS_AGING_THRESHOLD and both are cleared together.
HeldAging == { <<0, 0>>, <<HTAS_AGING_THRESHOLD + 1, AGING_PRIORITY_BOOST>> }

\* <<total_switches, numa_penalties>>; total_runtime_us is never written.
HeldCounters == { <<0, 0>>, <<2, 1>> }

\* The htas_info records earlier calls can have left on a process.
HeldInfos ==
    { [profile_fields(ZeroInfo, p) EXCEPT
          !.wait_time = a[1], !.priority_boost_aging = a[2],
          !.total_switches = c[1], !.numa_penalties = c[2]] :
      p \in HeldProfiles, a \in HeldAging, c \in HeldCounters }

ProcSamples ==
    {[state |-> PROC_UNUSED, htas_info |-> NoInfo],
     [state |-> PROC_READY, htas_info |-> NoInfo]}
    \cup {[state |-> PROC_READY, htas_info |-> i] : i \in HeldInfos}

\* Addresses passed by the caller of sys_sched_set_profile.
CallAddrs ==
    {NULL, 1, NumaRegionSize - 1, NumaRegionSize, 2 * NumaRegionSize - 1,
     2 * NumaRegionSize, 2147483647}

CallProfiles ==
    [intent : Intents, primary_data_region : CallAddrs, data_size : SizeSamples]

\* pids passed by the caller: every slot, and one below and one above them.
CallPids == 0..(MaxProcs + 1)

InitProfile ==
    /\ th = InitThreads
    /\ current = 0
    /\ age = [i \in Slots |-> 0]
    /\ sel = <<>>
    /\ InitIrq
    /\ InitAffIdle
    /\ procs \in [Procs -> ProcSamples]
    /\ pre = procs
    /\ pret = <<>>
    /\ InitBenchIdle

\* int ret = sys_sched_set_profile(pid, &profile);
set_profile_call ==
    /\ pret = <<>>
    /\ \E pid \in CallPids, profile \in CallProfiles, alloc_ok \in BOOLEAN :
          LET r == sys_sched_set_profile(procs, pid, profile, alloc_ok)
          IN /\ procs' = r[1]
             /\ pre' = procs
             /\ pret' = <<[pid |-> pid, profile |-> profile,
                           alloc_ok |-> alloc_ok, ret |-> r[2]]>>
    /\ UNCHANGED <<th, current, age, sel, irqvars, aprof, aff, benchvars>>

NextProfile == set_profile_call

SpecProfile == InitProfile /\ [][NextProfile]_vars

(***************************************************************************)
(* htas_benchmark.c: the synthetic workload of simulate_workload           *)
(***************************************************************************)
SIM_TICK_US == 1000
SIM_TASK_COUNT == 8
DYNAMIC_INFERENCE_WINDOW == 50
DYNAMIC_LOAD_THRESHOLD == 25

SimTasks == 0..(SIM_TASK_COUNT - 1)

\* A sim_task_t after memset(.., 0, ..): every member zero, which is
\* PROFILE_PERFORMANCE for intent and CPU_TYPE_PCORE for preferred_type.
ZeroTask ==
    [intent |-> PROFILE_PERFORMANCE, preferred_type |-> CPU_TYPE_PCORE,
     preferred_numa |-> 0, base_priority |-> 0, duty_cycle |-> 0,
     active_ticks |-> 0, duty_phase |-> 0, period_ms |-> 0, work_ms |-> 0,
     work_remaining |-> 0, time_since_release |-> 0, waiting_since_ready |-> 0,
     ready |-> FALSE, selected_this_tick |-> FALSE, scheduled_this_tick |-> FALSE,
     last_scheduled_tick |-> 0, runtime_us |-> 0, switches |-> 0,
     numa_penalties |-> 0, wait_time |-> 0, priority_boost_aging |-> 0,
     recent_cpu_ticks |-> 0, inferred_numa_node |-> 0, inferred_numa_locked |-> FALSE]

\* The eight compound literals of sim_init_tasks; a member a literal does not
\* name is zero.
InitialTask(i) ==
    CASE i = 0 ->
           [ZeroTask EXCEPT !.intent = PROFILE_PERFORMANCE, !.preferred_type = CPU_TYPE_PCORE,
                            !.preferred_numa = 0, !.base_priority = 12]
      [] i = 1 ->
           [ZeroTask EXCEPT !.intent = PROFILE_PERFORMANCE, !.preferred_type = CPU_TYPE_PCORE,
                            !.preferred_numa = 1, !.base_priority = 11]
      [] i \in 2..5 ->
           [ZeroTask EXCEPT !.intent = PROFILE_EFFICIENCY, !.preferred_type = CPU_TYPE_ECORE,
                            !.preferred_numa = 1, !.base_priority = 10,
                            !.duty_cycle = 5, !.active_ticks = 1]
      [] i = 6 ->
           [ZeroTask EXCEPT !.intent = PROFILE_LOW_LATENCY, !.preferred_type = CPU_TYPE_PCORE,
                            !.preferred_numa = 0, !.base_priority = 10,
                            !.period_ms = 16, !.work_ms = 2, !.time_since_release = 16]
      [] i = 7 ->
           [ZeroTask EXCEPT !.intent = PROFILE_PERFORMANCE, !.preferred_type = CPU_TYPE_ECORE,
                            !.preferred_numa = 1, !.base_priority = 10]

\* A sim_context_t after memset(ctx, 0, sizeof(sim_context_t)); the member
\* dynamic_stats is never read or written after it and is left out.
ZeroCtx ==
    [tasks |-> [i \in SimTasks |-> ZeroTask],
     last_task_on_cpu |-> [c \in Cpus |-> 0],
     latency_total_us |-> 0, latency_samples |-> 0, latency_max_us |-> 0,
     tick |-> 0, rr_index |-> 0]

\* sim_init_tasks without the memset: the members the function does not
\* assign keep what the memory of ctx held.
sim_init_tasks_no_memset(c) ==
    [c EXCEPT !.last_task_on_cpu = [k \in Cpus |-> -1],
              !.tasks = [i \in SimTasks |-> InitialTask(i)]]

\* sim_init_tasks(&ctx)
sim_init_tasks(c) ==
    [ZeroCtx EXCEPT !.last_task_on_cpu = [k \in Cpus |-> -1],
                    !.tasks = [i \in SimTasks |-> InitialTask(i)]]

\* sim_prepare_tick, the body of its loop for one task
prepare_task(task) ==
    LET t0 == [task EXCEPT !.selected_this_tick = FALSE, !.scheduled_this_tick = FALSE]
    IN IF t0.intent = PROFILE_LOW_LATENCY
       THEN IF t0.work_remaining = 0
            THEN IF t0.time_since_release < t0.period_ms
                 THEN [t0 EXCEPT !.time_since_release = @ + 1, !.ready = FALSE]
                 ELSE LET t1 == IF t0.work_remaining = 0 /\ ~t0.ready
                                THEN [t0 EXCEPT !.work_remaining = t0.work_ms,
                                                !.waiting_since_ready = 0]
                                ELSE t0
                      IN [t1 EXCEPT !.ready = (t1.work_remaining > 0)]
            ELSE [t0 EXCEPT !.ready = TRUE]
       ELSE IF t0.duty_cycle > 0
            THEN [t0 EXCEPT !.ready = (t0.duty_phase < t0.active_ticks),
                            !.duty_phase = (t0.duty_phase + 1) % t0.duty_cycle]
            ELSE [t0 EXCEPT !.ready = TRUE]

\* sim_prepare_tick(&ctx)
sim_prepare_tick(c) ==
    [c EXCEPT !.tasks = [i \in SimTasks |-> prepare_task(c.tasks[i])]]

\* The test every selection policy applies to a task, without the
\* selected_this_tick part.
sim_eligible_ready_only(task) == task.ready

\* if (!task->ready || task->selected_this_tick) continue;  negated
sim_eligible(task) == task.ready /\ ~task.selected_this_tick

\* The task a selection returned is marked selected_this_tick; -1 marks nothing.
mark_selected(c, idx) ==
    IF idx >= 0 THEN [c EXCEPT !.tasks[idx].selected_this_tick = TRUE] ELSE c

RECURSIVE rr_scan_from_zero(_, _)
\* A scan that starts at task 0 wherever rr_index is.
rr_scan_from_zero(c, attempts) ==
    IF attempts >= SIM_TASK_COUNT THEN <<c, -1>>
    ELSE IF sim_eligible(c.tasks[attempts])
         THEN <<mark_selected([c EXCEPT !.rr_index = (attempts + 1) % SIM_TASK_COUNT],
                              attempts), attempts>>
         ELSE rr_scan_from_zero(c, attempts + 1)

RECURSIVE rr_scan(_, _)
\* sim_select_task_round_robin, its loop from attempts on: <<ctx, index>>
rr_scan(c, attempts) ==
    IF attempts >= SIM_TASK_COUNT THEN <<c, -1>>
    ELSE LET idx == (c.rr_index + attempts) % SIM_TASK_COUNT
         IN IF sim_eligible(c.tasks[idx])
            THEN <<mark_selected([c EXCEPT !.rr_index = (idx + 1) % SIM_TASK_COUNT], idx), idx>>
            ELSE rr_scan(c, attempts + 1)

\* sim_select_task_round_robin(&ctx): <<ctx, index>>
sim_select_task_round_robin(c) == rr_scan(c, 0)

\* uint32_t age = ctx->tick - task->last_scheduled_tick; (int)(age / 4).
\* last_scheduled_tick is only ever assigned a tick that has passed.
age_term(c, task) == (c.tick - task.last_scheduled_tick) \div 4

\* A score that leaves the preferred core type of the task out.
htas_score_no_type(c, cpu_id, task) ==
    LET cpu_numa == g_cpu_topology[cpu_id].numa_node
        s0 == task.base_priority
        s2 == IF task.preferred_numa < NUM_NUMA_NODES
              THEN s0 + (IF cpu_numa = task.preferred_numa THEN 8 ELSE -6)
              ELSE s0
        s3 == IF task.intent = PROFILE_LOW_LATENCY
              THEN s2 + 15 + (IF task.waiting_since_ready > 0 THEN 15 ELSE 0)
              ELSE s2
    IN s3 + age_term(c, task) + task.priority_boost_aging

\* A score that rewards the core type the task does not prefer.
htas_score_other_type(c, cpu_id, task) ==
    LET cpu_type == g_cpu_topology[cpu_id].type
        cpu_numa == g_cpu_topology[cpu_id].numa_node
        s0 == task.base_priority
        s1 == IF task.preferred_type = CPU_TYPE_PCORE
              THEN s0 + (IF cpu_type = CPU_TYPE_PCORE THEN -8 ELSE 12)
              ELSE IF task.preferred_type = CPU_TYPE_ECORE
                   THEN s0 + (IF cpu_type = CPU_TYPE_ECORE THEN -6 ELSE 12)
                   ELSE s0
        s2 == IF task.preferred_numa < NUM_NUMA_NODES
              THEN s1 + (IF cpu_numa = task.preferred_numa THEN 8 ELSE -6)
              ELSE s1
        s3 == IF task.intent = PROFILE_LOW_LATENCY
              THEN s2 + 15 + (IF task.waiting_since_ready > 0 THEN 15 ELSE 0)
              ELSE s2
    IN s3 + age_term(c, task) + task.priority_boost_aging

\* The score sim_select_task_htas computes for a task on a CPU
htas_score(c, cpu_id, task) ==
    LET cpu_type == g_cpu_topology[cpu_id].type
        cpu_numa == g_cpu_topology[cpu_id].numa_node
        s0 == task.base_priority
        s1 == IF task.preferred_type = CPU_TYPE_PCORE
              THEN s0 + (IF cpu_type = CPU_TYPE_PCORE THEN 12 ELSE -8)
              ELSE IF task.preferred_type = CPU_TYPE_ECORE
                   THEN s0 + (IF cpu_type = CPU_TYPE_ECORE THEN 12 ELSE -6)
                   ELSE s0
        s2 == IF task.preferred_numa < NUM_NUMA_NODES
              THEN s1 + (IF cpu_numa = task.preferred_numa THEN 8 ELSE -6)
              ELSE s1
        s3 == IF task.intent = PROFILE_LOW_LATENCY
              THEN s2 + 15 + (IF task.waiting_since_ready > 0 THEN 15 ELSE 0)
              ELSE s2
    IN s3 + age_term(c, task) + task.priority_boost_aging

\* sim_select_task_dynamic, the term of the score for the type of the CPU: a
\* task above the load threshold is taken for a PERFORMANCE task, any other
\* for an EFFICIENCY task
dynamic_type_score(task, cpu_type) ==
    IF task.recent_cpu_ticks > DYNAMIC_LOAD_THRESHOLD
    THEN (IF cpu_type = CPU_TYPE_PCORE THEN 12 ELSE -8)
    ELSE (IF cpu_type = CPU_TYPE_ECORE THEN 12 ELSE -6)

\* The score sim_select_task_dynamic computes for a task on a CPU
dynamic_score(c, cpu_id, task) ==
    LET cpu_type == g_cpu_topology[cpu_id].type
        cpu_numa == g_cpu_topology[cpu_id].numa_node
        s0 == task.base_priority
        s1 == s0 + dynamic_type_score(task, cpu_type)
        s2 == s1 + (IF cpu_numa = task.inferred_numa_node THEN 8 ELSE -6)
        s3 == IF task.waiting_since_ready > 0 THEN s2 + 5 ELSE s2
    IN s3 + age_term(c, task) + task.priority_boost_aging

\* A comparison that also replaces the best task on an equal score.
score_better_ge(score, best_score) == score >= best_score

\* if (score > best_score)
score_better(score, best_score) == score > best_score

RECURSIVE htas_scan(_, _, _, _, _)
\* sim_select_task_htas, its loop from task i on: best_idx after the loop
htas_scan(c, cpu_id, i, best_idx, best_score) ==
    IF i >= SIM_TASK_COUNT THEN best_idx
    ELSE IF ~sim_eligible(c.tasks[i])
         THEN htas_scan(c, cpu_id, i + 1, best_idx, best_score)
         ELSE LET score == htas_score(c, cpu_id, c.tasks[i])
              IN IF score_better(score, best_score)
                 THEN htas_scan(c, cpu_id, i + 1, i, score)
                 ELSE htas_scan(c, cpu_id, i + 1, best_idx, best_score)

\* A selection that passes over the tasks whose score is 20 or less.
sim_select_task_htas_above_twenty(c, cpu_id) ==
    LET best_idx == htas_scan(c, cpu_id, 0, -1, 20)
    IN <<mark_selected(c, best_idx), best_idx>>

\* sim_select_task_htas(&ctx, cpu): <<ctx, index>>
sim_select_task_htas(c, cpu_id) ==
    LET best_idx == htas_scan(c, cpu_id, 0, -1, -1000)
    IN <<mark_selected(c, best_idx), best_idx>>

RECURSIVE dynamic_scan(_, _, _, _, _)
\* sim_select_task_dynamic, its loop from task i on: best_idx after the loop
dynamic_scan(c, cpu_id, i, best_idx, best_score) ==
    IF i >= SIM_TASK_COUNT THEN best_idx
    ELSE IF ~sim_eligible(c.tasks[i])
         THEN dynamic_scan(c, cpu_id, i + 1, best_idx, best_score)
         ELSE LET score == dynamic_score(c, cpu_id, c.tasks[i])
              IN IF score_better(score, best_score)
                 THEN dynamic_scan(c, cpu_id, i + 1, i, score)
                 ELSE dynamic_scan(c, cpu_id, i + 1, best_idx, best_score)

\* sim_select_task_dynamic(&ctx, cpu): <<ctx, index>>
sim_select_task_dynamic(c, cpu_id) ==
    LET best_idx == dynamic_scan(c, cpu_id, 0, -1, -1000)
    IN <<mark_selected(c, best_idx), best_idx>>

\* A selection that is round-robin whatever the policy.
sim_select_any_policy_round_robin(type, c, cpu_id) == sim_select_task_round_robin(c)

\* simulate_workload lines 417-423: the selection of one CPU by policy
sim_select(type, c, cpu_id) ==
    IF type = SCHED_HTAS THEN sim_select_task_htas(c, cpu_id)
    ELSE IF type = SCHED_BASELINE THEN sim_select_task_round_robin(c)
    ELSE sim_select_task_dynamic(c, cpu_id)

\* A scheduler_stats_t after memset(stats, 0, sizeof(scheduler_stats_t))
ZeroStats ==
    [total_ticks |-> 0, context_switches |-> 0, numa_penalties |-> 0,
     ecore_time_us |-> 0, pcore_time_us |-> 0,
     intent_stats |-> [i \in Intents |-> [runtime_us |-> 0, switches |-> 0,
                                          avg_latency_us |-> 0, max_jitter_us |-> 0]],
     total_power_consumption |-> 0]

\* The aging reset that clears the boost and leaves wait_time.
aging_reset_boost_only(task) == [task EXCEPT !.priority_boost_aging = 0]

\* sim_update_task_stats lines 304-305: task->wait_time = 0;
\* task->priority_boost_aging = 0;
aging_reset(task) == [task EXCEPT !.wait_time = 0, !.priority_boost_aging = 0]

\* An inference that learns the node of whatever CPU the task runs on first.
infer_task_any_node(task, cpu_numa) ==
    LET t1 == [task EXCEPT !.recent_cpu_ticks = @ + 1]
    IN IF ~t1.inferred_numa_locked
       THEN [t1 EXCEPT !.inferred_numa_node = cpu_numa, !.inferred_numa_locked = TRUE]
       ELSE t1

\* sim_update_task_stats lines 311-322: the inference of the dynamic policy
infer_task(task, cpu_numa) ==
    LET t1 == [task EXCEPT !.recent_cpu_ticks = @ + 1]
    IN IF ~t1.inferred_numa_locked /\ cpu_numa = t1.preferred_numa
       THEN [t1 EXCEPT !.inferred_numa_node = t1.preferred_numa,
                       !.inferred_numa_locked = TRUE]
       ELSE t1

\* An accounting that leaves intent_stats[intent].runtime_us alone.
add_intent_runtime_none(st, intent) == st

\* stats->intent_stats[task->intent].runtime_us += SIM_TICK_US;
add_intent_runtime(st, intent) ==
    [st EXCEPT !.intent_stats[intent].runtime_us = @ + SIM_TICK_US]

\* A penalty test on the inferred node in place of the hinted one.
numa_penalty_due_inferred(task, cpu_numa) ==
    task.preferred_numa < NUM_NUMA_NODES /\ task.inferred_numa_node # cpu_numa

\* if (task->preferred_numa < NUM_NUMA_NODES && task->preferred_numa != cpu_numa)
numa_penalty_due(task, cpu_numa) ==
    task.preferred_numa < NUM_NUMA_NODES /\ task.preferred_numa # cpu_numa

\* A sampling rule that takes a sample in every tick of a job.
latency_sample_due_every_tick(task) == task.intent = PROFILE_LOW_LATENCY

\* if (task->intent == PROFILE_LOW_LATENCY && task->work_remaining == task->work_ms)
latency_sample_due(task) ==
    task.intent = PROFILE_LOW_LATENCY /\ task.work_remaining = task.work_ms

\* sim_update_task_stats(&ctx, stats, cpu_id, task_index): <<ctx, stats>>
sim_update_task_stats(c, st, cpu_id, task_index) ==
    LET cpu_type == g_cpu_topology[cpu_id].type
        cpu_numa == g_cpu_topology[cpu_id].numa_node
    IN IF task_index < 0
       THEN <<c, [st EXCEPT !.total_power_consumption =
                               @ + (IF cpu_type = CPU_TYPE_PCORE THEN 30 ELSE 20)]>>
       ELSE
       LET task == c.tasks[task_index]
           t1 == [aging_reset(task) EXCEPT !.scheduled_this_tick = TRUE]
           t2 == infer_task(t1, cpu_numa)
           switched == c.last_task_on_cpu[cpu_id] # task_index
           t3 == IF switched THEN [t2 EXCEPT !.switches = @ + 1] ELSE t2
           st1 == IF switched
                  THEN [st EXCEPT !.context_switches = @ + 1,
                                  !.intent_stats[task.intent].switches = @ + 1]
                  ELSE st
           last1 == IF switched
                    THEN [c.last_task_on_cpu EXCEPT ![cpu_id] = task_index]
                    ELSE c.last_task_on_cpu
           st2 == [st1 EXCEPT !.total_power_consumption =
                                 @ + (IF cpu_type = CPU_TYPE_PCORE THEN 120 ELSE 70)]
           st3 == IF cpu_type = CPU_TYPE_PCORE
                  THEN [st2 EXCEPT !.pcore_time_us = @ + SIM_TICK_US]
                  ELSE [st2 EXCEPT !.ecore_time_us = @ + SIM_TICK_US]
           t4 == [t3 EXCEPT !.runtime_us = @ + SIM_TICK_US]
           st4 == add_intent_runtime(st3, task.intent)
           penalty == numa_penalty_due(t4, cpu_numa)
           st5 == IF penalty THEN [st4 EXCEPT !.numa_penalties = @ + 1] ELSE st4
           t5 == IF penalty THEN [t4 EXCEPT !.numa_penalties = @ + 1] ELSE t4
           sample == latency_sample_due(t5)
           jitter_us == t5.waiting_since_ready * SIM_TICK_US
           c1 == IF sample
                 THEN [c EXCEPT !.latency_total_us = @ + jitter_us,
                                !.latency_samples = @ + 1,
                                !.latency_max_us = IF jitter_us > @ THEN jitter_us ELSE @]
                 ELSE c
           t6 == IF t5.work_remaining > 0
                 THEN IF t5.work_remaining - 1 = 0
                      THEN [t5 EXCEPT !.work_remaining = 0, !.time_since_release = 0,
                                      !.ready = FALSE]
                      ELSE [t5 EXCEPT !.work_remaining = @ - 1]
                 ELSE t5
           t7 == [t6 EXCEPT !.last_scheduled_tick = c.tick]
       IN <<[c1 EXCEPT !.tasks[task_index] = t7, !.last_task_on_cpu = last1], st5>>

RECURSIVE update_cpus(_, _, _, _)
\* simulate_workload lines 427-430: sim_update_task_stats for cpu, cpu+1, ..
update_cpus(c, st, asg, cpu_id) ==
    IF cpu_id >= NUM_CPUS THEN <<c, st>>
    ELSE LET r == sim_update_task_stats(c, st, cpu_id, asg[cpu_id + 1])
         IN update_cpus(r[1], r[2], asg, cpu_id + 1)

\* sim_finalize_tick, the body of its loop for one task
finalize_task(task) ==
    LET t1 == IF task.intent = PROFILE_LOW_LATENCY
              THEN IF task.work_remaining > 0 /\ ~task.scheduled_this_tick
                   THEN [task EXCEPT !.waiting_since_ready = @ + 1]
                   ELSE IF task.work_remaining = 0
                        THEN [task EXCEPT !.waiting_since_ready = 0]
                        ELSE task
              ELSE task
        t2 == IF t1.ready /\ ~t1.scheduled_this_tick
              THEN LET w == t1.wait_time + 1
                   IN [t1 EXCEPT !.wait_time = w,
                                 !.priority_boost_aging =
                                     IF w > HTAS_AGING_THRESHOLD
                                     THEN AGING_PRIORITY_BOOST ELSE @]
              ELSE t1
        t3 == IF t2.recent_cpu_ticks > 0
              THEN [t2 EXCEPT !.recent_cpu_ticks = @ - 1] ELSE t2
    IN [t3 EXCEPT !.selected_this_tick = FALSE, !.scheduled_this_tick = FALSE]

\* sim_finalize_tick(&ctx)
sim_finalize_tick(c) ==
    [c EXCEPT !.tasks = [i \in SimTasks |-> finalize_task(c.tasks[i])]]

\* simulate_workload lines 435-441: the latency members of the record
latency_stats(c, st) ==
    [st EXCEPT !.intent_stats[PROFILE_LOW_LATENCY].avg_latency_us =
                   IF c.latency_samples > 0
                   THEN c.latency_total_us \div c.latency_samples ELSE 0,
               !.intent_stats[PROFILE_LOW_LATENCY].max_jitter_us = c.latency_max_us]

(***************************************************************************)
(* SpecSim: simulate_workload, one run after another                       *)
(*                                                                         *)
(* ctx and the record behind stats are memory the caller does not          *)
(* initialise: a run starts with what the run before it left there.  A     *)
(* tick is taken in steps: sim_prepare_tick, one selection per CPU, the    *)
(* accounting loop, sim_finalize_tick.                                     *)
(***************************************************************************)
\* The durations a run is started with.
SimDurations == {1, 3, MaxSimTicks}

SimPolicies == {SCHED_BASELINE, SCHED_HTAS, SCHED_DYNAMIC}

\* The CPUs of each type.
PCores == {k \in Cpus : g_cpu_topology[k].type = CPU_TYPE_PCORE}
ECores == {k \in Cpus : g_cpu_topology[k].type = CPU_TYPE_ECORE}

\* The history of a run before its first tick: no CPU has had a task.  prev is
\* the assignment of the tick before, cells the cells that differed from the
\* tick before them, cross each task's ticks on a CPU of the other node, onP
\* and onE each task's ticks on a P-core and on an E-core, ran whether the task
\* was scheduled in each of the last DYNAMIC_INFERENCE_WINDOW ticks.  now is
\* the number of ticks accounted; of the jobs of the LOW_LATENCY task, released
\* counts the releases, rel_tick is the tick of the last release, begun counts
\* the jobs that have had a CPU, wsum and wmax are the sum and the maximum of
\* the ticks between a job's release and its first tick on a CPU, and extra
\* counts the ticks on a CPU after the first of a job.
ZeroHist ==
    [prev |-> [c \in Cpus |-> -1], cells |-> 0, cross |-> [i \in SimTasks |-> 0],
     onP |-> [i \in SimTasks |-> 0], onE |-> [i \in SimTasks |-> 0],
     ran |-> [i \in SimTasks |-> <<>>],
     now |-> 0, released |-> 0, rel_tick |-> 0, begun |-> 0, wsum |-> 0, wmax |-> 0,
     extra |-> 0]

\* The LOW_LATENCY task of the workload.
LowLatTask == CHOOSE i \in SimTasks : InitialTask(i).intent = PROFILE_LOW_LATENCY

\* The history after sim_prepare_tick took the context from before to after:
\* a job is released when the task's work_remaining leaves 0.
HistReleased(h, before, after) ==
    IF before.tasks[LowLatTask].work_remaining = 0
         /\ after.tasks[LowLatTask].work_remaining > 0
    THEN [h EXCEPT !.released = @ + 1, !.rel_tick = h.now]
    ELSE h

\* The last DYNAMIC_INFERENCE_WINDOW entries of s with flag appended.
WindowAppend(s, flag) ==
    LET t == Append(s, flag)
    IN IF Len(t) > DYNAMIC_INFERENCE_WINDOW THEN Tail(t) ELSE t

\* The history after a tick whose assignment is asg, from asg alone.
HistAfter(h, asg) ==
    LET on(i, cores) == Cardinality({k \in cores : asg[k + 1] = i})
        has(i) == \E k \in Cpus : asg[k + 1] = i
        first == has(LowLatTask) /\ h.begun < h.released
        waited == h.now - h.rel_tick
    IN [h EXCEPT
        !.now = @ + 1,
        !.begun = IF first THEN @ + 1 ELSE @,
        !.wsum = IF first THEN @ + waited ELSE @,
        !.wmax = IF first /\ waited > @ THEN waited ELSE @,
        !.extra = IF has(LowLatTask) /\ ~first THEN @ + 1 ELSE @,
        !.prev = [c \in Cpus |-> asg[c + 1]],
        !.cells = h.cells + Cardinality({c \in Cpus : asg[c + 1] # h.prev[c]}),
        !.cross = [i \in SimTasks |->
                     h.cross[i]
                       + Cardinality({c \in Cpus :
                             /\ asg[c + 1] = i
                             /\ g_cpu_topology[c].numa_node
                                   # InitialTask(i).preferred_numa})],
        !.onP = [i \in SimTasks |-> h.onP[i] + on(i, PCores)],
        !.onE = [i \in SimTasks |-> h.onE[i] + on(i, ECores)],
        !.ran = [i \in SimTasks |-> WindowAppend(h.ran[i], IF has(i) THEN 1 ELSE 0)]]

simframe == <<th, current, age, sel, irqvars, procs, pre, pret, aprof, aff,
              pickvars, bench>>

InitSim ==
    /\ th = InitThreads
    /\ current = 0
    /\ age = [i \in Slots |-> 0]
    /\ sel = <<>>
    /\ InitIrq
    /\ InitProcsIdle
    /\ InitAffIdle
    /\ InitPickIdle
    /\ InitAgingTestIdle
    /\ ctx = ZeroCtx
    /\ stats = ZeroStats
    /\ stype = SCHED_BASELINE
    /\ duration_ms = 0
    /\ sphase = "idle"
    /\ assigned = <<>>
    /\ hist = ZeroHist
    /\ runs = {}
    /\ nrun = 0

\* simulate_workload(duration_ms, type, stats), lines 404-409: up to the
\* first test of the loop condition
sim_start ==
    /\ sphase = "idle"
    /\ nrun < MaxSimRuns
    /\ \E type \in SimPolicies, d \in SimDurations :
          /\ stype' = type
          /\ duration_ms' = d
          /\ sphase' = IF 0 < d THEN "prepare" ELSE "finish"
    /\ ctx' = [sim_init_tasks(ctx) EXCEPT !.tick = 0]
    /\ stats' = ZeroStats
    /\ assigned' = <<>>
    /\ hist' = ZeroHist
    /\ nrun' = nrun + 1
    /\ UNCHANGED <<runs, simframe>>

\* lines 410-412: stats->total_ticks++; sim_prepare_tick(&ctx);
sim_prepare ==
    /\ sphase = "prepare"
    /\ stats' = [stats EXCEPT !.total_ticks = @ + 1]
    /\ ctx' = sim_prepare_tick(ctx)
    /\ hist' = HistReleased(hist, ctx, sim_prepare_tick(ctx))
    /\ assigned' = <<>>
    /\ sphase' = "select"
    /\ UNCHANGED <<stype, duration_ms, runs, nrun, simframe>>

\* lines 415-425, one iteration: the CPU is the number of cells of assigned
\* already filled
sim_select_cpu ==
    /\ sphase = "select"
    /\ LET r == sim_select(stype, ctx, Len(assigned))
       IN /\ ctx' = r[1]
          /\ assigned' = Append(assigned, r[2])
    /\ sphase' = IF Len(assigned) + 1 = NUM_CPUS THEN "update" ELSE "select"
    /\ UNCHANGED <<stats, stype, duration_ms, hist, runs, nrun, simframe>>

\* lines 427-430: the accounting loop.  hist records, from assigned alone,
\* the cells that differ from the tick before and each task's ticks on a CPU
\* of the other node.
sim_update ==
    /\ sphase = "update"
    /\ LET r == update_cpus(ctx, stats, assigned, 0)
       IN /\ ctx' = r[1]
          /\ stats' = r[2]
    /\ hist' = HistAfter(hist, assigned)
    /\ sphase' = "finalize"
    /\ UNCHANGED <<stype, duration_ms, assigned, runs, nrun, simframe>>

\* lines 432 and 409: sim_finalize_tick(&ctx); ++ctx.tick and the loop test
sim_finalize ==
    /\ sphase = "finalize"
    /\ ctx' = [sim_finalize_tick(ctx) EXCEPT !.tick = @ + 1]
    /\ sphase' = IF ctx.tick + 1 < duration_ms THEN "prepare" ELSE "finish"
    /\ UNCHANGED <<stats, stype, duration_ms, assigned, hist, runs, nrun, simframe>>

\* lines 435-441, and the return: runs keeps what each finished run reported
sim_finish ==
    /\ sphase = "finish"
    /\ stats' = latency_stats(ctx, stats)
    /\ runs' = runs \cup {[n |-> nrun, type |-> stype, duration_ms |-> duration_ms,
                           stats |-> latency_stats(ctx, stats)]}
    /\ sphase' = "idle"
    /\ UNCHANGED <<ctx, stype, duration_ms, assigned, hist, nrun, simframe>>

NextSim ==
    \/ sim_start
    \/ sim_prepare
    \/ sim_select_cpu
    \/ sim_update
    \/ sim_finalize
    \/ sim_finish

SpecSim == InitSim /\ [][NextSim]_vars

(***************************************************************************)
(* htas.c: process-level selection and the global statistics records       *)
(*                                                                         *)
(* A struct process* is the pid of a slot of Procs, NoProc for NULL.  The  *)
(* table is the prefix Procs of processes[]; the slots after it are        *)
(* PROC_UNUSED, which every loop over the table skips.                     *)
(***************************************************************************)
NoProc == 0

\* The slot states a selection considers.
runnable(P, p) == P[p].state = PROC_READY \/ P[p].state = PROC_RUNNING

\* active_stats(): the member of g_stats it points to
active_stats(sched) == IF sched = SCHED_BASELINE THEN "baseline" ELSE "htas"

\* htas_get_cpu_type(cpu_id)
htas_get_cpu_type(cpu_id) ==
    IF cpu_id >= NUM_CPUS THEN CPU_TYPE_PCORE ELSE g_cpu_topology[cpu_id].type

\* htas_get_numa_node_for_cpu(cpu_id)
htas_get_numa_node_for_cpu(cpu_id) ==
    IF cpu_id >= NUM_CPUS THEN 0 ELSE g_cpu_topology[cpu_id].numa_node

\* A test that lets every process run on every CPU there is.
htas_can_run_on_cpu_any_mask(P, p, cpu_id) == cpu_id < NUM_CPUS

\* htas_can_run_on_cpu(proc, cpu_id)
htas_can_run_on_cpu(P, p, cpu_id) ==
    IF cpu_id >= NUM_CPUS THEN FALSE
    ELSE IF P[p].htas_info.null THEN TRUE
    ELSE HasBit(P[p].htas_info.cpu_affinity_mask, cpu_id)

RECURSIVE baseline_scan_from_zero(_, _, _, _)
\* A scan that starts at slot 0 wherever the cursor is.
baseline_scan_from_zero(P, candidate, start, scanned) ==
    IF scanned >= Len(P) THEN <<>>
    ELSE LET proc == scanned + 1
         IN IF P[proc].state = PROC_UNUSED \/ proc = candidate \/ ~runnable(P, proc)
            THEN baseline_scan_from_zero(P, candidate, start, scanned + 1)
            ELSE <<proc, scanned>>

RECURSIVE baseline_scan(_, _, _, _)
\* baseline_select_next lines 267-277: <<proc, rr_cursor>>, <<>> when the
\* loop ends without a return
baseline_scan(P, candidate, start, scanned) ==
    IF scanned >= Len(P) THEN <<>>
    ELSE LET idx == (start + scanned) % Len(P)
             proc == idx + 1
         IN IF P[proc].state = PROC_UNUSED \/ proc = candidate \/ ~runnable(P, proc)
            THEN baseline_scan(P, candidate, start, scanned + 1)
            ELSE <<proc, idx>>

\* baseline_select_next(): <<proc, rr_cursor>>
baseline_select_next(P, cur, cursor) ==
    LET current_idx == IF cur \in DOMAIN P THEN cur - 1 ELSE -1
        candidate == IF cur # NoProc /\ runnable(P, cur) THEN cur ELSE NoProc
        cursor1 == IF current_idx >= 0 THEN current_idx ELSE cursor
        start == IF cursor1 >= 0 THEN (cursor1 + 1) % Len(P) ELSE 0
        found == baseline_scan(P, candidate, start, 0)
    IN IF found # <<>> THEN found
       ELSE IF candidate # NoProc
            THEN <<candidate, IF current_idx >= 0 THEN current_idx ELSE cursor1>>
            ELSE <<NoProc, -1>>

\* htas_select_next lines 304-318: the priority of a process on a CPU
select_priority(P, p, cpu_id) ==
    IF P[p].htas_info.null THEN 0
    ELSE P[p].htas_info.priority_boost + P[p].htas_info.priority_boost_aging
         + (IF P[p].htas_info.preferred_numa_node = htas_get_numa_node_for_cpu(cpu_id)
            THEN 5 ELSE 0)

RECURSIVE select_scan(_, _, _, _, _)
\* htas_select_next, its loop from process p on: best after the loop
select_scan(P, cpu_id, p, best, best_priority) ==
    IF p > MaxProcs THEN best
    ELSE IF ~runnable(P, p) \/ ~htas_can_run_on_cpu(P, p, cpu_id)
         THEN select_scan(P, cpu_id, p + 1, best, best_priority)
         ELSE LET priority == select_priority(P, p, cpu_id)
              IN IF priority > best_priority \/ best = NoProc
                 THEN select_scan(P, cpu_id, p + 1, p, priority)
                 ELSE select_scan(P, cpu_id, p + 1, best, best_priority)

\* htas_select_next(cpu_id)
htas_select_next(P, cpu_id) == select_scan(P, cpu_id, 1, NoProc, -1000)

\* if (g_current_scheduler == SCHED_HTAS), the guard of the aging loop
aging_applies(sched) == sched = SCHED_HTAS

\* htas_pick_next_process lines 356-365: the body of the aging loop
age_process(proc, is_next) ==
    IF proc.state = PROC_READY /\ ~is_next /\ ~proc.htas_info.null
    THEN LET w == proc.htas_info.wait_time + 1
         IN [proc EXCEPT !.htas_info.wait_time = w,
                         !.htas_info.priority_boost_aging =
                             IF w > HTAS_AGING_THRESHOLD THEN AGING_PRIORITY_BOOST ELSE @]
    ELSE proc

\* htas_pick_next_process(current): the process returned, the table, the
\* statistics records and rr_cursor after the call
htas_pick_next_process(P, st, sched, cpu_id, cur, cursor) ==
    LET st1 == [st EXCEPT ![active_stats(sched)].total_ticks = @ + 1]
        chosen == IF sched = SCHED_BASELINE
                THEN baseline_select_next(P, cur, cursor)
                ELSE <<htas_select_next(P, cpu_id), cursor>>
        next == chosen[1]
    IN IF next = NoProc
       THEN [ret |-> cur, next |-> next, procs |-> P, stats |-> st1, cursor |-> chosen[2]]
       ELSE [ret |-> next, next |-> next,
             procs |-> IF aging_applies(sched)
                       THEN [p \in Procs |-> age_process(P[p], p = next)]
                       ELSE P,
             stats |-> st1, cursor |-> chosen[2]]

\* htas_record_switch lines 391-394: the intent_stats slot of an intent
clamp_intent(intent) ==
    IF intent < 0 \/ intent > PROFILE_DEFAULT THEN PROFILE_DEFAULT ELSE intent

\* htas_record_switch(current, next): the table, the statistics records and
\* g_current_cpu after the call
htas_record_switch(P, st, sched, cpu_id, cur, next) ==
    IF next = NoProc \/ next = cur
    THEN [procs |-> P, stats |-> st, cpu |-> cpu_id]
    ELSE LET a == active_stats(sched)
             st1 == [st EXCEPT ![a].context_switches = @ + 1]
             has == ~P[next].htas_info.null
             P1 == IF has
                   THEN [P EXCEPT ![next].htas_info.wait_time = 0,
                                  ![next].htas_info.priority_boost_aging = 0,
                                  ![next].htas_info.total_switches = @ + 1]
                   ELSE P
             st2 == IF has
                    THEN [st1 EXCEPT ![a].intent_stats[
                                         clamp_intent(P[next].htas_info.profile.intent)
                                       ].switches = @ + 1]
                    ELSE st1
             st3 == IF htas_get_cpu_type(cpu_id) = CPU_TYPE_PCORE
                    THEN [st2 EXCEPT ![a].total_power_consumption = @ + 100,
                                     ![a].pcore_time_us = @ + 10]
                    ELSE [st2 EXCEPT ![a].total_power_consumption = @ + 40,
                                     ![a].ecore_time_us = @ + 10]
         IN [procs |-> P1, stats |-> st3, cpu |-> (cpu_id + 1) % NUM_CPUS]

\* htas_simulate_memory_access(proc, addr, size): <<table, statistics records>>
htas_simulate_memory_access(P, st, sched, cpu_id, proc, addr) ==
    IF proc = NoProc \/ P[proc].htas_info.null THEN <<P, st>>
    ELSE IF htas_get_numa_node_for_address(addr) # htas_get_numa_node_for_cpu(cpu_id)
         THEN <<[P EXCEPT ![proc].htas_info.numa_penalties = @ + 1],
                [st EXCEPT ![active_stats(sched)].numa_penalties = @ + 1]>>
         ELSE <<P, st>>

\* htas_reset_stats(): both records are cleared
htas_reset_stats(st) == [baseline |-> ZeroStats, htas |-> ZeroStats]

\* The switch the caller of htas_pick_next_process makes to the process it
\* got back: the process that ran becomes READY, the other one RUNNING.
process_switch(P, cur, ret) ==
    IF ret = NoProc \/ ret = cur THEN P
    ELSE LET P1 == IF cur # NoProc /\ P[cur].state = PROC_RUNNING
                   THEN [P EXCEPT ![cur].state = PROC_READY] ELSE P
         IN [P1 EXCEPT ![ret].state = PROC_RUNNING]

(***************************************************************************)
(* SpecPick: scheduler ticks of the process level, with htas_set_scheduler,*)
(* htas_reset_stats and htas_simulate_memory_access between them           *)
(***************************************************************************)
\* Profiles the processes of the table were given by sys_sched_set_profile.
PickProfiles ==
    { [intent |-> PROFILE_LOW_LATENCY, primary_data_region |-> NULL, data_size |-> 0],
      [intent |-> PROFILE_EFFICIENCY, primary_data_region |-> NumaRegionSize, data_size |-> 4096],
      [intent |-> PROFILE_DEFAULT, primary_data_region |-> NULL, data_size |-> 0] }

\* wait_time of a process when the explored ticks begin: none, and one tick
\* short of HTAS_AGING_THRESHOLD after that many ticks under SCHED_HTAS.
PickWaits == {0, HTAS_AGING_THRESHOLD - 1}

PickInfos ==
    { [profile_fields(ZeroInfo, p) EXCEPT !.wait_time = w] :
      p \in PickProfiles, w \in PickWaits }

\* Process tables with process 1 running and the other slots READY or unused.
PickTables ==
    { P \in [Procs -> [state : {PROC_UNUSED, PROC_READY, PROC_RUNNING},
                       htas_info : PickInfos \cup {NoInfo}]] :
        /\ P[1].state = PROC_RUNNING
        /\ \A p \in Procs \ {1} :
              /\ P[p].state # PROC_RUNNING
              /\ P[p].state = PROC_UNUSED => P[p].htas_info = NoInfo }

\* Addresses a process touches: one in each NUMA region.
AccessAddrs == {4096, NumaRegionSize}

RECURSIVE PenaltyCount(_, _)
\* numa_penalties of processes 1..p together
PenaltyCount(P, p) ==
    IF p < 1 THEN 0
    ELSE (IF P[p].htas_info.null THEN 0 ELSE P[p].htas_info.numa_penalties)
         + PenaltyCount(P, p - 1)

pickframe == <<th, current, age, sel, irqvars, pre, pret, aprof, aff, simvars, bench>>

\* The operation just made and the state it was made in.
Before(op, next) ==
    <<[op |-> op, procs |-> procs, stats |-> g_stats, sched |-> g_current_scheduler,
       cpu |-> g_current_cpu, cur |-> pcur, next |-> next]>>

\* After htas_init, with processes created and given profiles.
InitPick ==
    /\ th = InitThreads
    /\ current = 0
    /\ age = [i \in Slots |-> 0]
    /\ sel = <<>>
    /\ InitIrq
    /\ InitAffIdle
    /\ InitSimIdle
    /\ InitAgingTestIdle
    /\ procs \in PickTables
    /\ pre = [i \in Procs |-> [state |-> PROC_UNUSED, htas_info |-> NoInfo]]
    /\ pret = <<>>
    /\ pcur = 1
    /\ g_current_scheduler = SCHED_BASELINE
    /\ g_current_cpu = 0
    /\ g_stats = [baseline |-> ZeroStats, htas |-> ZeroStats]
    /\ rr_cursor = -1
    /\ g_tick_counter = 0
    /\ plast = <<>>

\* htas_set_scheduler(type)
set_scheduler ==
    /\ \E type \in SimPolicies : g_current_scheduler' = type
    /\ plast' = Before("set_scheduler", NoProc)
    /\ UNCHANGED <<procs, pcur, g_current_cpu, g_stats, rr_cursor, g_tick_counter, pickframe>>

\* htas_reset_stats()
reset_stats ==
    /\ g_stats' = htas_reset_stats(g_stats)
    /\ plast' = Before("reset", NoProc)
    /\ UNCHANGED <<procs, pcur, g_current_scheduler, g_current_cpu, rr_cursor,
                   g_tick_counter, pickframe>>

\* One scheduler tick: next = htas_pick_next_process(current);
\* htas_record_switch(current, next); and the switch to next.
pick_tick ==
    /\ g_tick_counter < MaxPickTicks
    /\ LET r == htas_pick_next_process(procs, g_stats, g_current_scheduler,
                                       g_current_cpu, pcur, rr_cursor)
           s == htas_record_switch(r.procs, r.stats, g_current_scheduler,
                                   g_current_cpu, pcur, r.ret)
       IN /\ procs' = process_switch(s.procs, pcur, r.ret)
          /\ g_stats' = s.stats
          /\ g_current_cpu' = s.cpu
          /\ rr_cursor' = r.cursor
          /\ pcur' = r.ret
          /\ plast' = Before("tick", r.next)
    /\ g_tick_counter' = g_tick_counter + 1
    /\ UNCHANGED <<g_current_scheduler, pickframe>>

\* htas_simulate_memory_access(proc, addr, size) by the running process
memory_access ==
    /\ PenaltyCount(procs, MaxProcs) < MaxPickAccesses
    /\ \E addr \in AccessAddrs :
          LET r == htas_simulate_memory_access(procs, g_stats, g_current_scheduler,
                                               g_current_cpu, pcur, addr)
          IN /\ procs' = r[1]
             /\ g_stats' = r[2]
    /\ plast' = Before("access", NoProc)
    /\ UNCHANGED <<pcur, g_current_scheduler, g_current_cpu, rr_cursor,
                   g_tick_counter, pickframe>>

NextPick ==
    \/ set_scheduler
    \/ reset_stats
    \/ pick_tick
    \/ memory_access

SpecPick == InitPick /\ [][NextPick]_vars

(***************************************************************************)
(* SpecAgingTest: htas_run_aging_benchmark, one iteration of its loop per  *)
(* step                                                                    *)
(***************************************************************************)
AGING_TEST_BULLY_PRIORITY == 10
AGING_TEST_VICTIM_PRIORITY == 5
AGING_TEST_THRESHOLD == 50
AGING_TEST_BOOST == 10
\* for (int tick = 0; tick < 500; tick++)
AgingTestTicks == 500

\* A test that lets the victim wait one tick longer.
aging_test_due_late(wait) == wait > AGING_TEST_THRESHOLD + 1

\* if (victim_wait_time > AGING_TEST_THRESHOLD)
aging_test_due(wait) == wait > AGING_TEST_THRESHOLD

\* if (bully_prio >= victim_total_prio)
bully_wins(b) ==
    AGING_TEST_BULLY_PRIORITY >= AGING_TEST_VICTIM_PRIORITY + b.victim_aging_boost

benchframe == <<th, current, age, sel, irqvars, procs, pre, pret, aprof, aff,
                simvars, pickvars>>

\* The locals at line 467, before the first iteration; since counts the
\* iterations made after the victim's last run (all of them before its first).
InitAgingTest ==
    /\ th = InitThreads
    /\ current = 0
    /\ age = [i \in Slots |-> 0]
    /\ sel = <<>>
    /\ InitIrq
    /\ InitProcsIdle
    /\ InitAffIdle
    /\ InitSimIdle
    /\ InitPickIdle
    /\ bench = [tick |-> 0, victim_wait_time |-> 0, victim_aging_boost |-> 0,
                victim_run_count |-> 0, starvation_broken |-> FALSE, since |-> 0]

\* lines 469-479: the bully runs, the victim waits
bully_runs ==
    /\ bench.tick < AgingTestTicks
    /\ bully_wins(bench)
    /\ LET w == bench.victim_wait_time + 1
       IN bench' = [bench EXCEPT
                       !.victim_wait_time = w,
                       !.victim_aging_boost = IF aging_test_due(w) THEN AGING_TEST_BOOST ELSE @,
                       !.starvation_broken = IF aging_test_due(w) THEN TRUE ELSE @,
                       !.since = @ + 1,
                       !.tick = @ + 1]
    /\ UNCHANGED benchframe

\* lines 480-487: the victim runs
victim_runs ==
    /\ bench.tick < AgingTestTicks
    /\ ~bully_wins(bench)
    /\ bench' = [bench EXCEPT !.victim_run_count = @ + 1,
                              !.victim_wait_time = 0,
                              !.victim_aging_boost = 0,
                              !.since = 0,
                              !.tick = @ + 1]
    /\ UNCHANGED benchframe

NextAgingTest ==
    \/ bully_runs
    \/ victim_runs

SpecAgingTest == InitAgingTest /\ [][NextAgingTest]_vars

(***************************************************************************)
(* SpecFull: htas_run_full_benchmark, its three phases                     *)
(*                                                                         *)
(* run_benchmark_phase is called for BASELINE, HTAS and DYNAMIC, each for  *)
(* duration seconds, and fills one record per phase.  A step takes up to   *)
(* MaxChunkTicks iterations of the loop of simulate_workload.  The body of *)
(* the loop never reads duration_ms, so the state after n ticks of a phase *)
(* is the state after the last tick of a run of n ticks.                   *)
(***************************************************************************)
\* uint32_t duration = 15; the seconds of each phase
BENCH_DURATION_SEC == 15

\* The order of the calls of run_benchmark_phase.
BenchPhases == <<SCHED_BASELINE, SCHED_HTAS, SCHED_DYNAMIC>>

RECURSIVE workload_assign(_, _, _, _)
\* simulate_workload lines 414-425: the selections of cpu, cpu+1, ..:
\* <<ctx, assigned>>
workload_assign(type, c, cpu_id, asg) ==
    IF cpu_id >= NUM_CPUS THEN <<c, asg>>
    ELSE LET r == sim_select(type, c, cpu_id)
         IN workload_assign(type, r[1], cpu_id + 1, Append(asg, r[2]))

\* simulate_workload lines 409-433, one iteration of the loop with ++ctx.tick
workload_tick(type, c, st) ==
    LET a == workload_assign(type, sim_prepare_tick(c), 0, <<>>)
        u == update_cpus(a[1], [st EXCEPT !.total_ticks = @ + 1], a[2], 0)
    IN [ctx |-> [sim_finalize_tick(u[1]) EXCEPT !.tick = @ + 1],
        stats |-> u[2],
        assigned |-> a[2]]

\* One iteration of the loop from the state s = [ctx, stats, assigned, hist]
workload_step(type, s) ==
    LET r == workload_tick(type, s.ctx, s.stats)
    IN [ctx |-> r.ctx, stats |-> r.stats, assigned |-> r.assigned,
        hist |-> HistAfter(HistReleased(s.hist, s.ctx, sim_prepare_tick(s.ctx)),
                           r.assigned)]

RECURSIVE workload_ticks(_, _, _, _)
\* simulate_workload lines 409-433: up to n iterations of the loop.  The state
\* after an iteration is bound through a singleton set, which TLC evaluates
\* once.
workload_ticks(type, s, duration, n) ==
    IF n = 0 \/ s.ctx.tick >= duration THEN s
    ELSE CHOOSE out \in {workload_ticks(type, t, duration, n - 1) :
                            t \in {workload_step(type, s)}} : TRUE

fullframe == <<th, current, age, sel, irqvars, procs, pre, pret, aprof, aff,
               g_current_cpu, rr_cursor, g_tick_counter, pcur, plast, bench>>

\* htas_run_full_benchmark before its first phase, after htas_init.
InitFull ==
    /\ th = InitThreads
    /\ current = 0
    /\ age = [i \in Slots |-> 0]
    /\ sel = <<>>
    /\ InitIrq
    /\ InitProcsIdle
    /\ InitAffIdle
    /\ InitAgingTestIdle
    /\ g_current_scheduler = SCHED_BASELINE
    /\ g_current_cpu = 0
    /\ g_stats = [baseline |-> ZeroStats, htas |-> ZeroStats]
    /\ rr_cursor = -1
    /\ g_tick_counter = 0
    /\ pcur = 0
    /\ plast = <<>>
    /\ ctx = ZeroCtx
    /\ stats = ZeroStats
    /\ stype = SCHED_BASELINE
    /\ duration_ms = 0
    /\ sphase = "idle"
    /\ assigned = <<>>
    /\ hist = ZeroHist
    /\ runs = {}
    /\ nrun = 0

\* run_benchmark_phase(name, sched_type, duration, out_stats) up to the first
\* test of the loop of simulate_workload
phase_start ==
    /\ sphase = "idle"
    /\ nrun < Len(BenchPhases)
    /\ stype' = BenchPhases[nrun + 1]
    /\ g_current_scheduler' = BenchPhases[nrun + 1]
    /\ g_stats' = htas_reset_stats(g_stats)
    /\ duration_ms' = BENCH_DURATION_SEC * 1000
    /\ ctx' = [sim_init_tasks(ctx) EXCEPT !.tick = 0]
    /\ stats' = ZeroStats
    /\ assigned' = <<>>
    /\ hist' = ZeroHist
    /\ nrun' = nrun + 1
    /\ sphase' = IF 0 < BENCH_DURATION_SEC * 1000 THEN "tick" ELSE "finish"
    /\ UNCHANGED <<runs, fullframe>>

\* The next iterations of the loop of simulate_workload, MaxChunkTicks of them
\* or as many as are left.
phase_ticks ==
    /\ sphase = "tick"
    /\ \E r \in {workload_ticks(stype,
                               [ctx |-> ctx, stats |-> stats, assigned |-> assigned,
                                hist |-> hist],
                               duration_ms, MaxChunkTicks)} :
          /\ ctx' = r.ctx
          /\ stats' = r.stats
          /\ assigned' = r.assigned
          /\ hist' = r.hist
          /\ sphase' = IF r.ctx.tick < duration_ms THEN "tick" ELSE "finish"
    /\ UNCHANGED <<stype, duration_ms, runs, nrun, g_current_scheduler, g_stats,
                   fullframe>>

\* simulate_workload lines 435-441 and the rest of run_benchmark_phase: the
\* record of the phase is complete
phase_finish ==
    /\ sphase = "finish"
    /\ stats' = latency_stats(ctx, stats)
    /\ runs' = runs \cup {[n |-> nrun, type |-> stype, duration_ms |-> duration_ms,
                           stats |-> latency_stats(ctx, stats)]}
    /\ sphase' = "idle"
    /\ UNCHANGED <<ctx, stype, duration_ms, assigned, hist, nrun,
                   g_current_scheduler, g_stats, fullframe>>

NextFull ==
    \/ phase_start
    \/ phase_ticks
    \/ phase_finish

SpecFull == InitFull /\ [][NextFull]_vars

(***************************************************************************)
(* SpecBaseline: baseline_select_next                                      *)
(*                                                                         *)
(* The function reads the process table, the current process and its       *)
(* static cursor, and writes the cursor.  It is applied once to each table *)
(* of MaxRRProcs slots, each current process and each value of the cursor. *)
(***************************************************************************)
\* The tables and current processes (NoProc: process_current() is NULL): a
\* slot other than the current process is not RUNNING, and the current
\* process is a slot in use.
RRInputs ==
    { in \in [P : [1..MaxRRProcs -> [state : {PROC_UNUSED, PROC_READY, PROC_RUNNING,
                                              PROC_BLOCKED},
                                     htas_info : {NoInfo}]],
              cur : 0..MaxRRProcs] :
        /\ \A p \in 1..MaxRRProcs : in.P[p].state = PROC_RUNNING => p = in.cur
        /\ in.cur # NoProc => in.P[in.cur].state # PROC_UNUSED }

rrframe == <<th, current, age, sel, irqvars, pre, pret, aprof, aff, simvars, bench,
             g_current_scheduler, g_current_cpu, g_stats, g_tick_counter>>

\* Before a call of baseline_select_next: the cursor is -1, as initialised, or
\* the index an earlier call left.
InitBaseline ==
    /\ th = InitThreads
    /\ current = 0
    /\ age = [i \in Slots |-> 0]
    /\ sel = <<>>
    /\ InitIrq
    /\ InitAffIdle
    /\ InitSimIdle
    /\ InitAgingTestIdle
    /\ \E in \in RRInputs : procs = in.P /\ pcur = in.cur
    /\ pre = [i \in Procs |-> [state |-> PROC_UNUSED, htas_info |-> NoInfo]]
    /\ pret = <<>>
    /\ g_current_scheduler = SCHED_BASELINE
    /\ g_current_cpu = 0
    /\ g_stats = [baseline |-> ZeroStats, htas |-> ZeroStats]
    /\ rr_cursor \in -1..(MaxRRProcs - 1)
    /\ g_tick_counter = 0
    /\ plast = <<>>

\* baseline_select_next(): plast keeps the cursor the call found and the
\* process it returned
baseline_call ==
    /\ plast = <<>>
    /\ LET r == baseline_select_next(procs, pcur, rr_cursor)
       IN /\ rr_cursor' = r[2]
          /\ plast' = <<[op |-> "baseline", cursor |-> rr_cursor, ret |-> r[1]]>>
    /\ UNCHANGED <<procs, pcur, rrframe>>

NextBaseline == baseline_call

SpecBaseline == InitBaseline /\ [][NextBaseline]_vars

(***************************************************************************)
(* SpecFairPick: the process level under SCHED_HTAS with a tick that never *)
(* stops coming                                                            *)
(*                                                                         *)
(* The timer calls htas_pick_next_process and htas_record_switch on every  *)
(* tick, which is weak fairness of the tick.  The counters no selection    *)
(* reads are projected away: the statistics records and total_switches are *)
(* not carried from one tick to the next, g_tick_counter is kept modulo 2, *)
(* and wait_time is kept up to one above HTAS_AGING_THRESHOLD, which is    *)
(* all that the aging test distinguishes.  The selections are those of the *)
(* code.                                                                   *)
(***************************************************************************)
\* The table with the counters projected away.
forget_counters(P) ==
    [p \in DOMAIN P |->
        IF P[p].htas_info.null THEN P[p]
        ELSE [P[p] EXCEPT
                 !.htas_info.total_switches = 0,
                 !.htas_info.wait_time =
                     IF @ > HTAS_AGING_THRESHOLD THEN HTAS_AGING_THRESHOLD + 1 ELSE @]]

\* After htas_init and htas_set_scheduler(SCHED_HTAS), with processes created
\* and given profiles.
InitFairPick ==
    /\ th = InitThreads
    /\ current = 0
    /\ age = [i \in Slots |-> 0]
    /\ sel = <<>>
    /\ InitIrq
    /\ InitAffIdle
    /\ InitSimIdle
    /\ InitAgingTestIdle
    /\ procs \in PickTables
    /\ pre = [i \in Procs |-> [state |-> PROC_UNUSED, htas_info |-> NoInfo]]
    /\ pret = <<>>
    /\ pcur = 1
    /\ g_current_scheduler = SCHED_HTAS
    /\ g_current_cpu = 0
    /\ g_stats = [baseline |-> ZeroStats, htas |-> ZeroStats]
    /\ rr_cursor = -1
    /\ g_tick_counter = 0
    /\ plast = <<>>

\* One scheduler tick: next = htas_pick_next_process(current);
\* htas_record_switch(current, next); and the switch to next.
fair_tick ==
    /\ LET r == htas_pick_next_process(procs, g_stats, g_current_scheduler,
                                       g_current_cpu, pcur, rr_cursor)
           s == htas_record_switch(r.procs, r.stats, g_current_scheduler,
                                   g_current_cpu, pcur, r.ret)
       IN /\ procs' = forget_counters(process_switch(s.procs, pcur, r.ret))
          /\ g_current_cpu' = s.cpu
          /\ rr_cursor' = r.cursor
          /\ pcur' = r.ret
          /\ plast' = <<[op |-> "tick", next |-> r.next]>>
    /\ g_tick_counter' = (g_tick_counter + 1) % 2
    /\ UNCHANGED <<g_stats, g_current_scheduler, pickframe>>

NextFairPick == fair_tick

SpecFairPick == InitFairPick /\ [][NextFairPick]_vars /\ WF_vars(fair_tick)

(***************************************************************************)
(* SpecCreate: one kthread_create call on a thread table                   *)
(***************************************************************************)
\* A slot a thread has been created in: READY or RUNNING, at any priority,
\* with a fresh or a nearly used slice, not waiting or one tick short of a
\* promotion.
CreatedThreads ==
    { t \in [state : {T_READY, T_RUNNING}, priority : 0..(SCHED_PRIORITY_LEVELS - 1),
              slice_left : 1..priority_quantum[SCHED_PRIORITY_BATCH],
              wait_ticks : {0, AGING_THRESHOLD - 1}] :
        t.slice_left \in {1, priority_quantum[t.priority]} }

\* Thread tables after sched_init and some calls: one thread is RUNNING, the
\* bootstrap thread keeps its priority, a slot never used is all zero.
CreateTables ==
    { t \in [Slots -> CreatedThreads \cup {ZeroThread}] :
        /\ t[0] \in CreatedThreads
        /\ t[0].priority = SCHED_PRIORITY_BATCH
        /\ t[0].wait_ticks = 0
        /\ Cardinality({i \in Slots : t[i].state = T_RUNNING}) = 1
        /\ \A i \in Slots : t[i].state = T_RUNNING => t[i].wait_ticks = 0 }

InitCreate ==
    /\ th \in CreateTables
    /\ current = CHOOSE i \in Slots : th[i].state = T_RUNNING
    /\ age = [i \in Slots |-> 0]
    /\ sel = <<>>
    /\ InitIrq
    /\ InitProfIdle

\* int tid = kthread_create(fn, arg, name); with the stack allocated: return i
create_ok_call ==
    /\ sel = <<>>
    /\ kthread_create_ok
    /\ sel' = <<first_unused(th)>>
    /\ UNCHANGED <<age, irqvars, profvars>>

\* int tid = kthread_create(fn, arg, name); returning -1 at line 72 or 83
create_fail_call ==
    /\ sel = <<>>
    /\ kthread_create_fail
    /\ sel' = <<-1>>
    /\ UNCHANGED <<age, irqvars, profvars>>

NextCreate ==
    \/ create_ok_call
    \/ create_fail_call

SpecCreate == InitCreate /\ [][NextCreate]_vars

(***************************************************************************)
(* SpecSlice: Spec with the ticks the running thread has run in a row      *)
(*                                                                         *)
(* Here age is a record of two counts for the RUNNING thread: run, the     *)
(* sched_tick calls in a row it has stayed RUNNING through while a thread  *)
(* in slots 1.. was READY, and since, the same count restarted by every    *)
(* accepted sched_set_priority on the RUNNING thread.  Both are counted up *)
(* to one above the longest quantum.                                       *)
(***************************************************************************)
\* One more tick, counted up to one above priority_quantum[BATCH].
run_more(n) ==
    IF n > priority_quantum[SCHED_PRIORITY_BATCH] THEN n ELSE n + 1

\* The counts after a sched_tick from table t with cur RUNNING to cur2 RUNNING.
run_tick(t, cur, cur2) ==
    IF cur2 # cur \/ ~\E i \in WorkerSlots : t[i].state = T_READY
    THEN [run |-> 0, since |-> 0]
    ELSE [run |-> run_more(age.run), since |-> run_more(age.since)]

\* The counts after a sched_yield.
run_yield(cur, cur2) ==
    IF cur2 # cur THEN [run |-> 0, since |-> 0] ELSE age

\* The counts after sched_set_priority(pid, priority).
run_set(t, cur, pid, priority) ==
    IF pid = cur /\ ~set_priority_rejects(t, pid, priority)
    THEN [age EXCEPT !.since = 0]
    ELSE age

InitSlice ==
    /\ th = InitThreads
    /\ current = 0
    /\ age = [run |-> 0, since |-> 0]
    /\ sel = <<>>
    /\ InitIrq
    /\ InitProfIdle

NextSlice ==
    \/ kthread_create_ok /\ UNCHANGED <<age, irqvars, callvars>>
    \/ \E pid \in Slots, priority \in AgingPriorityArgs :
          /\ sched_set_priority(pid, priority)
          /\ age' = run_set(th, current, pid, priority)
          /\ UNCHANGED <<irqvars, callvars>>
    \/ sched_yield /\ age' = run_yield(current, current') /\ UNCHANGED <<irqvars, callvars>>
    \/ sched_tick /\ age' = run_tick(th, current, current') /\ UNCHANGED <<irqvars, callvars>>

SpecSlice == InitSlice /\ [][NextSlice]_vars

(***************************************************************************)
(* SpecFairTick: sched.c without sched_set_priority, the timer tick weakly *)
(* fair                                                                    *)
(*                                                                         *)
(* The timer interrupt calls sched_tick again and again, which is weak     *)
(* fairness of the tick; kthread_create and sched_yield happen when the    *)
(* threads choose.  The tables the behaviours start from are those earlier *)
(* calls, sched_set_priority among them, can have left.  Here nirq is the  *)
(* parity of the interrupts delivered: timer_tick is the only step that    *)
(* changes it and is enabled in every state (current >= 0 after            *)
(* sched_init), so fairness is stated for the delivery of the interrupt.   *)
(***************************************************************************)
FairSlots == 0..(MaxFairThreads - 1)
FairWorkers == 1..(MaxFairThreads - 1)

\* A slot a thread has been created in: a READY thread holds a full quantum
\* and has not waited or is one tick short of a promotion, the RUNNING
\* thread has a fresh or a nearly used slice.
FairThreads ==
    { t \in [state : {T_READY, T_RUNNING}, priority : 0..(SCHED_PRIORITY_LEVELS - 1),
              slice_left : 1..priority_quantum[SCHED_PRIORITY_BATCH],
              wait_ticks : {0, AGING_THRESHOLD - 1}] :
        /\ t.slice_left \in {1, priority_quantum[t.priority]}
        /\ t.state = T_READY => t.slice_left = priority_quantum[t.priority]
        /\ t.state = T_RUNNING => t.wait_ticks = 0 }

\* Thread tables with one RUNNING thread; the bootstrap thread is at BATCH.
FairTables ==
    { t \in [FairSlots -> FairThreads \cup {ZeroThread}] :
        /\ t[0] \in FairThreads
        /\ t[0].priority = SCHED_PRIORITY_BATCH
        /\ t[0].wait_ticks = 0
        /\ Cardinality({i \in FairSlots : t[i].state = T_RUNNING}) = 1 }

InitFairTick ==
    /\ th \in FairTables
    /\ current = CHOOSE i \in FairSlots : th[i].state = T_RUNNING
    /\ age = [i \in Slots |-> 0]
    /\ sel = <<>>
    /\ InitIrq
    /\ InitProfIdle

\* The timer delivers an interrupt.
irq_delivered == nirq' = 1 - nirq

\* sched_tick() from the timer interrupt
timer_tick ==
    /\ current >= 0
    /\ irq_delivered
    /\ LET r == tick_result(th, current) IN
        /\ th' = r[1]
        /\ current' = r[2]
    /\ UNCHANGED <<age, cpu, pc, ynext, yprev, esp, valid, callvars>>

NextFairTick ==
    \/ timer_tick
    \/ kthread_create_ok /\ UNCHANGED <<age, irqvars, callvars>>
    \/ sched_yield /\ UNCHANGED <<age, irqvars, callvars>>

SpecFairTick == InitFairTick /\ [][NextFairTick]_vars /\ WF_nirq(irq_delivered)

(***************************************************************************)
(* Claims                                                                  *)
(***************************************************************************)
RunningSlots == {i \in Slots : th[i].state = T_RUNNING}

\* C1: after sched_init and any sequence of kthread_create, sched_set_priority,
\* sched_yield and sched_tick calls, exactly one slot of the thread table is
\* RUNNING and current is the index of that slot.
C1_OneRunning ==
    /\ Cardinality(RunningSlots) = 1
    /\ current \in Slots
    /\ RunningSlots = {current}

\* C1 witness: the bootstrap thread has been switched out, a worker runs and
\* another worker is READY.
C1_Witness ==
    /\ current # 0
    /\ th[0].state = T_READY
    /\ \E i \in WorkerSlots : th[i].state = T_READY

C4_PromotedWithinOneTick ==
    [][sched_tick =>
        \A i \in Slots :
            (th[i].state = T_READY /\ th[i].wait_ticks > AGING_THRESHOLD)
                => /\ th'[i].priority = th[i].priority - 1
                   /\ th'[i].wait_ticks = 0]_vars

\* C4 amended: a READY thread whose priority is not REALTIME never holds
\* wait_ticks of AGING_THRESHOLD or more between calls, and the sched_tick
\* that brings such a thread's wait_ticks to AGING_THRESHOLD ends with the
\* thread promoted one level and its wait_ticks reset.
C4_NonRealtimePromotedInTick ==
    /\ [](\A i \in Slots :
            (th[i].state = T_READY /\ th[i].priority > SCHED_PRIORITY_REALTIME)
                => th[i].wait_ticks < AGING_THRESHOLD)
    /\ [][sched_tick =>
            \A i \in WorkerSlots :
                (/\ th[i].state = T_READY
                 /\ th[i].priority > SCHED_PRIORITY_REALTIME
                 /\ th[i].wait_ticks + 1 >= AGING_THRESHOLD)
                    => /\ th'[i].priority = th[i].priority - 1
                       /\ th'[i].wait_ticks = 0]_vars

\* C4 witness: a worker created at INTERACTIVE has been promoted by the tick
\* that brought its wait_ticks to AGING_THRESHOLD.
C4_Witness ==
    \E i \in WorkerSlots :
        /\ th[i].state = T_READY
        /\ age[i] = AGING_THRESHOLD
        /\ th[i].priority = SCHED_PRIORITY_REALTIME
        /\ th[i].wait_ticks = 0

\* The READY threads select_next looks at.
ReadyWorkers(t) == {i \in WorkerSlots : t[i].state = T_READY}

\* i is at least as good a choice as j: lower priority number, then greater
\* wait_ticks, then lower index.
Precedes(t, i, j) ==
    \/ t[i].priority < t[j].priority
    \/ /\ t[i].priority = t[j].priority
       /\ \/ t[i].wait_ticks > t[j].wait_ticks
          \/ (t[i].wait_ticks = t[j].wait_ticks /\ i <= j)

\* The thread the selection rule names, -1 when no thread in slots 1.. is READY.
BestReady(t) ==
    IF ReadyWorkers(t) = {} THEN -1
    ELSE CHOOSE i \in ReadyWorkers(t) : \A j \in ReadyWorkers(t) : Precedes(t, i, j)

\* C5: a sched_tick call ends with a different thread RUNNING exactly when a
\* READY candidate exists and either its priority number after aging is below
\* the current thread's or the current thread's slice is 0 after the decrement;
\* otherwise the current thread keeps running, with its slice refilled when it
\* had reached 0.
C5_TickPreemption ==
    [][sched_tick =>
        LET waited(i) == IF i \in WorkerSlots /\ i # current /\ th[i].state = T_READY
                         THEN th[i].wait_ticks + 1 ELSE th[i].wait_ticks
            promoted(i) == /\ i \in WorkerSlots
                           /\ th[i].state = T_READY
                           /\ waited(i) >= AGING_THRESHOLD
                           /\ th[i].priority > SCHED_PRIORITY_REALTIME
            aged == [i \in Slots |->
                        IF promoted(i)
                        THEN [th[i] EXCEPT !.priority = th[i].priority - 1, !.wait_ticks = 0]
                        ELSE [th[i] EXCEPT !.wait_ticks = waited(i)]]
            cand == BestReady(aged)
            slice == IF th[current].slice_left > 0 THEN th[current].slice_left - 1 ELSE 0
            preempt == /\ cand >= 0
                       /\ \/ aged[cand].priority < th[current].priority
                          \/ slice = 0
        IN /\ (current' # current) <=> preempt
           /\ preempt => /\ current' = cand
                         /\ th'[cand].state = T_RUNNING
                         /\ th'[current].state = T_READY
           /\ ~preempt => /\ th'[current].state = T_RUNNING
                          /\ th'[current].slice_left =
                                IF slice = 0 THEN priority_quantum[th[current].priority]
                                ELSE slice]_vars

\* C5 witness: the state a preempting tick leaves, after enough ticks for a
\* slice to run out: a worker runs with a full quantum, and a READY worker of
\* higher priority number has just been put back (it has been READY for no
\* tick yet) with its slice refilled and its wait_ticks cleared.
C5_Witness ==
    /\ current \in WorkerSlots
    /\ th[current].slice_left = priority_quantum[th[current].priority]
    /\ \E i \in WorkerSlots :
          /\ th[i].state = T_READY
          /\ th[i].priority > th[current].priority
          /\ th[i].slice_left = priority_quantum[th[i].priority]
          /\ th[i].wait_ticks = 0
          /\ age[i] = 0
          /\ age[0] >= priority_quantum[th[i].priority]

\* C6: select_next returns the READY thread in slots 1.. with the lowest
\* priority number, among those the greatest wait_ticks, among those the lowest
\* index; -1 exactly when no thread in slots 1.. is READY; never a thread that
\* is not READY.
C6_SelectNext ==
    sel # <<>> =>
        /\ sel[1] = BestReady(th)
        /\ (sel[1] = -1) <=> (ReadyWorkers(th) = {})
        /\ sel[1] # -1 => (sel[1] \in WorkerSlots /\ th[sel[1]].state = T_READY)

\* C6 witness: two READY threads tie on priority and wait_ticks and the lower
\* index was returned.
C6_Witness ==
    /\ sel = <<1>>
    /\ \E j \in WorkerSlots :
          /\ j > 1
          /\ th[j].state = T_READY
          /\ th[j].priority = th[1].priority
          /\ th[j].wait_ticks = th[1].wait_ticks

\* C2: a timer tick delivered between two statements of a cooperative
\* sched_yield leaves selection and switch atomic: whenever the executing
\* thread is outside sched_yield, exactly one slot is RUNNING, that slot is
\* current, and it is the thread that executes.
C2_YieldAtomicUnderTick ==
    InThread =>
        /\ Cardinality(RunningSlots) = 1
        /\ RunningSlots = {current}
        /\ cpu = current

\* The CPUs whose bit is set in mask m.
MaskCpus(m) == {c \in Cpus : HasBit(m, c)}

\* The CPUs of one core type, and of one NUMA node, read off the topology table.
TypeCpus(type) == {c \in Cpus : g_cpu_topology[c].type = type}
NodeCpus(node) == {c \in Cpus : g_cpu_topology[c].numa_node = node}

\* The CPUs an intent alone allows.
IntentCpus(intent) ==
    IF intent \in {PROFILE_PERFORMANCE, PROFILE_LOW_LATENCY} THEN TypeCpus(CPU_TYPE_PCORE)
    ELSE IF intent = PROFILE_EFFICIENCY THEN TypeCpus(CPU_TYPE_ECORE)
    ELSE Cpus

\* The NUMA node of an address: node 1 for [0x08000000, 0x10000000), node 0
\* for [0, 0x08000000) and for every address outside both regions.
RegionNode(addr) ==
    IF addr >= NumaRegionSize /\ addr < 2 * NumaRegionSize THEN 1 ELSE 0

\* The CPUs a profile allows.
ExpectedCpus(profile) ==
    IF profile.primary_data_region = NULL THEN IntentCpus(profile.intent)
    ELSE LET both == IntentCpus(profile.intent)
                       \cap NodeCpus(RegionNode(profile.primary_data_region))
         IN IF both = {} THEN IntentCpus(profile.intent) ELSE both

\* The call of SpecProfile that has been made.
Called == pret # <<>>
Call == pret[1]

\* C7: for each of the four intents and every primary_data_region (NULL, in
\* node 0, in node 1, outside all regions), a sys_sched_set_profile call that
\* returns 0 leaves the task with a non-zero cpu_affinity_mask.
C7_SuccessMaskNonZero ==
    (Called /\ Call.ret = 0) =>
        /\ Call.pid \in Procs
        /\ ~procs[Call.pid].htas_info.null
        /\ procs[Call.pid].htas_info.cpu_affinity_mask # 0

\* A successful call whose NUMA restriction removed every CPU of the intent:
\* EFFICIENCY with data outside all regions (node 0 holds no E-core).
C7_Witness ==
    /\ Called
    /\ Call.ret = 0
    /\ Call.profile.intent = PROFILE_EFFICIENCY
    /\ Call.profile.primary_data_region = 2147483647
    /\ procs[Call.pid].htas_info.cpu_affinity_mask = 12

\* C8: htas_calculate_affinity returns the intent-only mask (P-cores for
\* PERFORMANCE and LOW_LATENCY, E-cores for EFFICIENCY, all CPUs for DEFAULT);
\* with a primary_data_region it returns that mask intersected with the CPUs
\* of the region's NUMA node when the intersection is non-empty, and the
\* intent-only mask when it is empty.
C8_AffinityMask ==
    aff # <<>> =>
        /\ aff[1] \in 0..(2 ^ NUM_CPUS - 1)
        /\ MaskCpus(aff[1]) = ExpectedCpus(aprof)

\* EFFICIENCY with data on node 0: the intersection is empty and the E-core
\* mask 0xC comes back.
C8_Witness ==
    /\ aff = <<12>>
    /\ aprof.intent = PROFILE_EFFICIENCY
    /\ aprof.primary_data_region = 4096

\* The pid of the call names no live process.
UnknownPid == Call.pid \notin Procs \/ pre[Call.pid].state = PROC_UNUSED

\* The call had to allocate the scheduler state and kmalloc failed.
AllocFailed == ~UnknownPid /\ pre[Call.pid].htas_info.null /\ ~Call.alloc_ok

\* C9: sys_sched_set_profile returns -1 and attaches no scheduler state when
\* the pid is unknown, and returns -1 leaving the process without scheduler
\* state when the allocation fails; in both cases no profile, mask, boost or
\* counter of any process changes.
C9_FailureChangesNothing ==
    Called =>
        /\ UnknownPid =>
              /\ Call.ret = -1
              /\ \A i \in Procs : procs[i].htas_info = pre[i].htas_info
        /\ AllocFailed =>
              /\ Call.ret = -1
              /\ procs[Call.pid].htas_info.null
              /\ \A i \in Procs : procs[i].htas_info = pre[i].htas_info

\* The allocation failed for a live process without state, next to a process
\* that carries a profile.
C9_Witness ==
    /\ Called
    /\ AllocFailed
    /\ Call.ret = -1
    /\ \E i \in Procs : i # Call.pid /\ ~procs[i].htas_info.null

\* C10: a successful sys_sched_set_profile on a process that already has
\* scheduler state changes only profile, cpu_affinity_mask, priority_boost
\* (LOW_LATENCY_PRIORITY_BOOST for LOW_LATENCY, else 0) and
\* preferred_numa_node; wait_time, priority_boost_aging and the counters keep
\* their values, and no other process changes.
C10_UpdateFrame ==
    (Called /\ Call.ret = 0 /\ Call.pid \in Procs /\ ~pre[Call.pid].htas_info.null) =>
        LET old == pre[Call.pid].htas_info
            new == procs[Call.pid].htas_info
        IN /\ ~new.null
           /\ new.profile = Call.profile
           /\ new.priority_boost =
                 (IF Call.profile.intent = PROFILE_LOW_LATENCY
                  THEN LOW_LATENCY_PRIORITY_BOOST ELSE 0)
           /\ new.wait_time = old.wait_time
           /\ new.priority_boost_aging = old.priority_boost_aging
           /\ new.total_runtime_us = old.total_runtime_us
           /\ new.total_switches = old.total_switches
           /\ new.numa_penalties = old.numa_penalties
           /\ procs[Call.pid].state = pre[Call.pid].state
           /\ \A i \in Procs : i # Call.pid => procs[i] = pre[i]

\* An aged process that has been switched to and charged a NUMA penalty gets a
\* LOW_LATENCY profile in place of another one.
C10_Witness ==
    /\ Called
    /\ Call.ret = 0
    /\ Call.pid \in Procs
    /\ ~pre[Call.pid].htas_info.null
    /\ pre[Call.pid].htas_info.wait_time = HTAS_AGING_THRESHOLD + 1
    /\ pre[Call.pid].htas_info.priority_boost_aging = AGING_PRIORITY_BOOST
    /\ pre[Call.pid].htas_info.total_switches = 2
    /\ pre[Call.pid].htas_info.priority_boost = 0
    /\ procs[Call.pid].htas_info.priority_boost = LOW_LATENCY_PRIORITY_BOOST
    /\ procs[Call.pid].htas_info.cpu_affinity_mask # pre[Call.pid].htas_info.cpu_affinity_mask

\* The tasks that hold a cell of assigned.
AssignedTasks == {assigned[k] : k \in 1..Len(assigned)} \ {-1}

\* The policies of the simulate_workload runs that have returned.
FinishedPolicies == {r.type : r \in runs}

\* C11: within one simulator tick, under each of the three policies, no task
\* is assigned to two CPUs (a task selected for CPU c is not selected for a
\* CPU greater than c in the same tick), and every selected_this_tick mark is
\* clear when the selection of a tick starts.
C11_NoDoubleAssignment ==
    /\ \A a, b \in 1..Len(assigned) :
          (a < b /\ assigned[a] >= 0) => assigned[b] # assigned[a]
    /\ (sphase = "select" /\ Len(assigned) = 0) =>
          \A i \in SimTasks : ~ctx.tasks[i].selected_this_tick

\* C11 witness: after a BASELINE and an HTAS run, a tick of a DYNAMIC run past
\* the first has given all four CPUs a task while a fifth task was ready.
C11_Witness ==
    /\ stype = SCHED_DYNAMIC
    /\ FinishedPolicies = {SCHED_BASELINE, SCHED_HTAS}
    /\ sphase = "update"
    /\ ctx.tick >= 5
    /\ Cardinality(AssignedTasks) = NUM_CPUS
    /\ \E i \in SimTasks : ctx.tasks[i].ready /\ ~ctx.tasks[i].selected_this_tick

RECURSIVE IntentRuntimeSum(_)
\* intent_stats[0].runtime_us + .. + intent_stats[i].runtime_us
IntentRuntimeSum(i) ==
    IF i < 0 THEN 0 ELSE stats.intent_stats[i].runtime_us + IntentRuntimeSum(i - 1)

\* C12: after every tick of simulate_workload, under every policy, the sum over
\* the four intents of intent_stats[i].runtime_us equals
\* pcore_time_us + ecore_time_us.
C12_RuntimeSum ==
    IntentRuntimeSum(PROFILE_DEFAULT) = stats.pcore_time_us + stats.ecore_time_us

\* C12 witness: a tick with an idle CPU has been accounted, tasks of three
\* intents have run, on P-cores and on E-cores.
C12_Witness ==
    /\ sphase = "finalize"
    /\ ctx.tick >= 3
    /\ \E k \in 1..Len(assigned) : assigned[k] = -1
    /\ stats.pcore_time_us > 0
    /\ stats.ecore_time_us > 0
    /\ \A i \in {PROFILE_PERFORMANCE, PROFILE_EFFICIENCY, PROFILE_LOW_LATENCY} :
          stats.intent_stats[i].runtime_us > 0

\* C13: after any number of simulator ticks, context_switches equals the
\* number of (cpu, tick) cells in which the assignment of the CPU differs from
\* its assignment on the previous tick, idle cells included.
C13_SwitchesCountChangedCells == stats.context_switches = hist.cells

RECURSIVE TaskPenaltySum(_)
\* tasks[0].numa_penalties + .. + tasks[i].numa_penalties
TaskPenaltySum(i) ==
    IF i < 0 THEN 0 ELSE ctx.tasks[i].numa_penalties + TaskPenaltySum(i - 1)

\* C14: after any number of simulator ticks, each task's numa_penalties equals
\* the number of ticks in which it ran on a CPU whose NUMA node differs from
\* its preferred_numa, and the numa_penalties of the statistics record equals
\* the sum of the per-task counts.
C14_NumaPenalties ==
    /\ \A i \in SimTasks : ctx.tasks[i].numa_penalties = hist.cross[i]
    /\ stats.numa_penalties = TaskPenaltySum(SIM_TASK_COUNT - 1)

\* C14 witness: one task has run on the other node more than once, another
\* task has run without ever leaving its node.
C14_Witness ==
    /\ sphase = "finalize"
    /\ \E i, j \in SimTasks :
          /\ hist.cross[i] >= 2
          /\ hist.cross[j] = 0
          /\ ctx.tasks[j].runtime_us >= 2 * SIM_TICK_US
    /\ stats.numa_penalties >= 3

\* sim_finalize_tick has returned for at least one tick of the run and the
\* next tick, if there is one, has not begun.
EndOfTick == sphase \in {"prepare", "finish"} /\ ctx.tick > 0

TickSelected == plast # <<>> /\ plast[1].op = "tick" /\ plast[1].next # NoProc

\* Process p was READY with scheduler state when the last tick began and was
\* not the process the tick selected.
PassedOver(p) ==
    /\ plast[1].procs[p].state = PROC_READY
    /\ ~plast[1].procs[p].htas_info.null
    /\ plast[1].next # p

\* C16: in the process-level scheduler, under every active policy, a READY
\* process with scheduler state that is passed over by a tick has its
\* wait_time incremented, and once its wait_time exceeds AGING_THRESHOLD its
\* priority_boost_aging is AGING_PRIORITY_BOOST until it is switched in.
C16_AgingUnderEveryPolicy ==
    /\ TickSelected =>
          \A p \in Procs :
             PassedOver(p) =>
                procs[p].htas_info.wait_time = plast[1].procs[p].htas_info.wait_time + 1
    /\ \A p \in Procs :
          (~procs[p].htas_info.null /\ procs[p].htas_info.wait_time > HTAS_AGING_THRESHOLD)
             => procs[p].htas_info.priority_boost_aging = AGING_PRIORITY_BOOST

\* The score of the claim for task i of context c on a CPU: base priority,
\* core-kind term, NUMA term, the LOW_LATENCY terms, the age term and the
\* aging boost.
C17_Score(c, cpu_id, i) ==
    LET task == c.tasks[i]
        kind == g_cpu_topology[cpu_id].type
        node == g_cpu_topology[cpu_id].numa_node
        CoreTerm == IF task.preferred_type = kind THEN 12
                    ELSE IF task.preferred_type = CPU_TYPE_PCORE THEN -8 ELSE -6
        NumaTerm == IF task.preferred_numa = node THEN 8 ELSE -6
        LatencyTerm == IF task.intent # PROFILE_LOW_LATENCY THEN 0
                       ELSE IF task.waiting_since_ready > 0 THEN 30 ELSE 15
    IN task.base_priority + CoreTerm + NumaTerm + LatencyTerm
       + ((c.tick - task.last_scheduled_tick) \div 4) + task.priority_boost_aging

\* The ready tasks of context c no CPU has been given in this tick.
C17_Candidates(c) ==
    {i \in SimTasks : c.tasks[i].ready /\ ~c.tasks[i].selected_this_tick}

\* r is the candidate of the highest score, the lowest index among equals,
\* and -1 exactly when there is no candidate.
C17_IsBest(c, cpu_id, r) ==
    IF C17_Candidates(c) = {} THEN r = -1
    ELSE /\ r \in C17_Candidates(c)
         /\ \A j \in C17_Candidates(c) :
               /\ C17_Score(c, cpu_id, j) <= C17_Score(c, cpu_id, r)
               /\ C17_Score(c, cpu_id, j) = C17_Score(c, cpu_id, r) => r <= j

\* C17: for every simulator state and CPU, sim_select_task_htas returns the
\* ready, not-yet-selected task of the maximum score (base_priority, +12 on a
\* core-kind match, -8 for a P-preferring task on an E-core, -6 for an
\* E-preferring task on a P-core, +8 on a NUMA match and -6 otherwise, +15 if
\* LOW_LATENCY and 15 more if it has waited since its release, a quarter of
\* tick - last_scheduled_tick, and priority_boost_aging); ties go to the
\* lowest task index, and it returns -1 exactly when no ready unselected task
\* exists.
\* The first conjunct is about the selections an HTAS run makes; the second
\* applies the function to the states the runs of the other policies pass
\* through as well, where LOW_LAT has waited since its release.
C17_HtasArgmax ==
    [][(sphase = "select" /\ Len(assigned') = Len(assigned) + 1) =>
          /\ stype = SCHED_HTAS =>
                C17_IsBest(ctx, Len(assigned), assigned'[Len(assigned')])
          /\ C17_IsBest(ctx, Len(assigned),
                        sim_select_task_htas(ctx, Len(assigned))[2])]_vars

\* C17 witness: the selection for CPU 2 of an HTAS tick has returned task 2
\* while another EFFICIENCY task with the same score was ready and unselected.
C17_Witness ==
    /\ stype = SCHED_HTAS
    /\ sphase = "select"
    /\ Len(assigned) = 3
    /\ assigned[3] = 2
    /\ \E j \in 3..5 :
          /\ j \in C17_Candidates(ctx)
          /\ C17_Score(ctx, 2, j) = C17_Score(ctx, 2, 2)

\* C18: simulate_workload is deterministic: two runs with the same duration
\* and the same policy, started from any prior state (any previous runs under
\* any policy), report identical statistics records.
C18_Deterministic ==
    \A r1, r2 \in runs :
        (r1.type = r2.type /\ r1.duration_ms = r2.duration_ms) => r1.stats = r2.stats

\* C18 witness: the first and the third run had the same policy and duration,
\* a run of another policy lay between them, and the record is not empty.
C18_Witness ==
    \E r1, r2, r3 \in runs :
        /\ r1.n = 1 /\ r2.n = 2 /\ r3.n = 3
        /\ r1.type = r3.type
        /\ r1.duration_ms = r3.duration_ms
        /\ r2.type # r1.type
        /\ r3.stats.context_switches > 0
        /\ r3.stats.total_ticks = MaxSimTicks

\* C19: each policy's statistics record is written only by that policy's own
\* phase: ticks, switches, NUMA penalties and resets performed while one
\* policy is active never modify the statistics record of another policy.
C19_StatsFrame ==
    (plast # <<>> /\ plast[1].op \in {"tick", "access", "reset"}) =>
        /\ plast[1].sched # SCHED_BASELINE => g_stats.baseline = plast[1].stats.baseline
        /\ plast[1].sched # SCHED_HTAS => g_stats.htas = plast[1].stats.htas

\* C20, as claimed: in the two-task single-CPU aging scenario (threshold T =
\* AGING_TEST_THRESHOLD) the priority-5 task runs at least once by the time
\* T+1 ticks have been waited, and after each of its runs it runs again within
\* the following T ticks.
C20_RunsAgainWithinT ==
    /\ bench.victim_run_count = 0 => bench.since <= AGING_TEST_THRESHOLD + 1
    /\ bench.victim_run_count > 0 => bench.since < AGING_TEST_THRESHOLD

\* C20, amended: the priority-5 task first runs when T+1 ticks have been
\* waited, and after each of its runs it runs again within the following T+2
\* ticks: it never waits more than T+1 ticks in a row.
C20_RunsAgainWithinTPlus2 ==
    /\ bench.since <= AGING_TEST_THRESHOLD + 1
    /\ bench.since = AGING_TEST_THRESHOLD + 1 =>
          bench.victim_aging_boost = AGING_TEST_BOOST
    /\ bench.tick > AGING_TEST_THRESHOLD + 1 => bench.victim_run_count > 0

\* C20 witness: the victim has just run for the second time.
C20_Witness ==
    /\ bench.victim_run_count = 2
    /\ bench.since = 0
    /\ bench.tick = 2 * (AGING_TEST_THRESHOLD + 2)


(***************************************************************************)
(* Claims on the core types the tasks run on                               *)
(***************************************************************************)
\* The ticks task i has been scheduled in so far in the run.
Scheduled(i) == hist.onP[i] + hist.onE[i]

\* The tasks sim_init_tasks declares with intent PERFORMANCE or LOW_LATENCY.
IntentTasks ==
    {i \in SimTasks :
        InitialTask(i).intent \in {PROFILE_PERFORMANCE, PROFILE_LOW_LATENCY}}

\* Those of them that sim_init_tasks declares to prefer a P-core.
IntentPCoreTasks ==
    {i \in IntentTasks : InitialTask(i).preferred_type = CPU_TYPE_PCORE}

InPhase(type) == stype = type /\ sphase \in {"tick", "finish"} /\ ctx.tick > 0

\* C22: after 1000 ticks of the fixed workload under HTAS, PERF0 (task 0) has
\* had at least 90% of its scheduled ticks on the P-cores, CPU 0 or CPU 1.
C22_Perf0OnPCores ==
    (InPhase(SCHED_HTAS) /\ ctx.tick = 1000)
        => /\ Scheduled(0) > 0
           /\ 100 * hist.onP[0] >= 90 * Scheduled(0)
           /\ PCores = {0, 1}

\* 1000 ticks of the HTAS phase are done: PERF0 has been scheduled in each,
\* while LOW_LAT and PERF1 have had ticks on the P-cores too.
C22_Witness ==
    /\ InPhase(SCHED_HTAS)
    /\ ctx.tick = 1000
    /\ stats.total_ticks = 1000
    /\ Scheduled(0) = 1000
    /\ hist.onP[6] > 0
    /\ hist.onP[1] > 0


(***************************************************************************)
(* Claims on the jitter of the LOW_LATENCY task                            *)
(***************************************************************************)
\* The max_jitter_us a finished run reports for the LOW_LATENCY task.
MaxJitter(r) == r.stats.intent_stats[PROFILE_LOW_LATENCY].max_jitter_us

\* The pairs <<HTAS run, BASELINE run>> of finished runs of equal duration.
HtasBaselinePairs ==
    {p \in runs \X runs : /\ p[1].type = SCHED_HTAS
                           /\ p[2].type = SCHED_BASELINE
                           /\ p[1].duration_ms = p[2].duration_ms}

\* C23 as stated: for the same number of ticks, the max_jitter_us of an HTAS
\* run is strictly less than the max_jitter_us of a BASELINE run.
C23_HtasJitterLess ==
    \A p \in HtasBaselinePairs : MaxJitter(p[1]) < MaxJitter(p[2])

\* C23 amended: for the same number of ticks, the max_jitter_us of an HTAS run
\* is never greater than that of a BASELINE run, and it is strictly less when
\* the runs have 2 ticks or more.
C23_HtasJitterLessFromTwoTicks ==
    \A p \in HtasBaselinePairs :
        /\ MaxJitter(p[1]) <= MaxJitter(p[2])
        /\ p[1].duration_ms >= 2 => MaxJitter(p[1]) < MaxJitter(p[2])

\* An HTAS run of the longest duration has just ended, with jitter sampled in
\* it, after a BASELINE run of the same duration.
C23_Witness ==
    /\ sphase = "idle"
    /\ stype = SCHED_HTAS
    /\ duration_ms = MaxSimTicks
    /\ ctx.latency_samples > 1
    /\ \E p \in HtasBaselinePairs :
          /\ p[1].duration_ms = MaxSimTicks
          /\ p[1].n = nrun
          /\ MaxJitter(p[1]) = 0
          /\ MaxJitter(p[2]) = SIM_TICK_US


\* C24: the bound of 8000 us separates the two policies: the max_jitter_us the
\* HTAS phase reports is below 8000 and the max_jitter_us the BASELINE phase
\* reports is at least 8000.
C24_JitterBoundSeparates ==
    \A r \in runs :
        /\ r.type = SCHED_HTAS => MaxJitter(r) < 8000
        /\ r.type = SCHED_BASELINE => MaxJitter(r) >= 8000


(***************************************************************************)
(* Claims on the NUMA penalties of the three phases                        *)
(***************************************************************************)
\* The phases that have ended, by policy.
PhaseOf(type) ==
    {r \in runs : r.type = type /\ r.duration_ms = BENCH_DURATION_SEC * 1000}

\* C25: over 15000 ticks the numa_penalties of the HTAS phase is at least 40%
\* lower than the numa_penalties of the BASELINE phase, i.e. at most 60% of it.
C25_HtasPenaltiesFortyPercentLower ==
    \A h \in PhaseOf(SCHED_HTAS), b \in PhaseOf(SCHED_BASELINE) :
        100 * h.stats.numa_penalties <= 60 * b.stats.numa_penalties

\* C26: over 15000 ticks the numa_penalties of the DYNAMIC phase lies strictly
\* between those of the HTAS phase and of the BASELINE phase.
C26_DynamicPenaltiesBetween ==
    \A h \in PhaseOf(SCHED_HTAS), d \in PhaseOf(SCHED_DYNAMIC),
       b \in PhaseOf(SCHED_BASELINE) :
        /\ h.stats.numa_penalties < d.stats.numa_penalties
        /\ d.stats.numa_penalties < b.stats.numa_penalties

\* The three phases have ended with 15000 ticks each, and each counted
\* penalties.
C26_Witness ==
    /\ sphase = "idle"
    /\ nrun = 3
    /\ \E h \in PhaseOf(SCHED_HTAS), d \in PhaseOf(SCHED_DYNAMIC),
          b \in PhaseOf(SCHED_BASELINE) :
          /\ h.stats.total_ticks = 15000
          /\ d.stats.total_ticks = 15000
          /\ b.stats.total_ticks = 15000
          /\ h.stats.numa_penalties > 0
          /\ b.stats.numa_penalties - d.stats.numa_penalties > 1000


(***************************************************************************)
(* Claims on the round-robin selections                                    *)
(***************************************************************************)
\* The runnable processes of the table other than the current one.
OtherRunnable == {p \in DOMAIN procs : runnable(procs, p) /\ p # pcur}

\* The index the scan of a call starts at: the slot after the current
\* process, or after the cursor the call found when there is no current
\* process, and slot 0 when that cursor is -1.
ScanStart(cursor) ==
    IF pcur # NoProc THEN pcur % Len(procs)
    ELSE IF cursor >= 0 THEN (cursor + 1) % Len(procs) ELSE 0

\* The number of slots the scan passes before it reaches process p.
ScanDistance(p, cursor) == ((p - 1) - ScanStart(cursor) + Len(procs)) % Len(procs)

\* C27: baseline_select_next returns another READY or RUNNING process whenever
\* one exists besides the current process, the first one in cyclic index order
\* after the cursor; it returns the current process when that is the only
\* runnable one; it returns no process only when no process is READY or
\* RUNNING.  The cursor is left on the process returned.
C27_BaselineSelectNext ==
    plast # <<>> =>
        LET ret == plast[1].ret
            cursor == plast[1].cursor
        IN /\ OtherRunnable # {} =>
                /\ ret \in OtherRunnable
                /\ \A q \in OtherRunnable :
                      ScanDistance(ret, cursor) <= ScanDistance(q, cursor)
                /\ rr_cursor = ret - 1
           /\ (OtherRunnable = {} /\ pcur # NoProc /\ runnable(procs, pcur)) =>
                ret = pcur
           /\ ret = NoProc <=> ~\E p \in DOMAIN procs : runnable(procs, p)

\* A call with a runnable current process in slot 2 and runnable processes on
\* both sides of it has returned the one after it, not the one in slot 1.
C27_Witness ==
    /\ plast # <<>>
    /\ pcur = 2
    /\ runnable(procs, 2)
    /\ OtherRunnable = {1, 3}
    /\ plast[1].ret = 3
    /\ rr_cursor = 2


\* The task the last call of the run returned that returned a task: the last
\* cell filled in this tick, else the last cell filled in the tick before,
\* else -1.
LastReturned ==
    LET now == {k \in 1..Len(assigned) : assigned[k] # -1}
        before == {k \in Cpus : hist.prev[k] # -1}
    IN IF now # {} THEN assigned[CHOOSE k \in now : \A j \in now : j <= k]
       ELSE IF before # {}
            THEN hist.prev[CHOOSE k \in before : \A j \in before : j <= k]
            ELSE -1

\* The tasks a selection may return: ready and not selected in this tick.
Eligible == {i \in SimTasks : ctx.tasks[i].ready /\ ~ctx.tasks[i].selected_this_tick}

\* The number of tasks the round-robin scan passes before it reaches task i.
RRDistance(i) ==
    (i - (IF LastReturned = -1 THEN 0 ELSE LastReturned + 1) + 2 * SIM_TASK_COUNT)
        % SIM_TASK_COUNT

\* C28: under BASELINE each call of sim_select_task_round_robin returns the
\* first task, in cyclic index order from just after the task the previous
\* call returned, that is ready and not yet selected in this tick, and -1
\* exactly when there is none; the cursor carries over from tick to tick.
C28_RoundRobinOrder ==
    [][(sim_select_cpu /\ stype = SCHED_BASELINE) =>
          LET ret == assigned'[Len(assigned')]
          IN /\ ret = -1 <=> Eligible = {}
             /\ ret # -1 =>
                   /\ ret \in Eligible
                   /\ \A q \in Eligible : RRDistance(ret) <= RRDistance(q)]_vars

\* The first selection of a BASELINE tick has just passed over a lower-indexed
\* ready task and returned one after the last task of the tick before.
C28_Witness ==
    /\ stype = SCHED_BASELINE
    /\ sphase = "select"
    /\ Len(assigned) = 1
    /\ ctx.tick > 0
    /\ assigned[1] > 0
    /\ ctx.tasks[0].ready
    /\ ~ctx.tasks[0].selected_this_tick
    /\ assigned[1] = (hist.prev[NUM_CPUS - 1] + 1) % SIM_TASK_COUNT


(***************************************************************************)
(* Claims on the load estimate of the dynamic policy                       *)
(***************************************************************************)
\* The ticks, among the last DYNAMIC_INFERENCE_WINDOW, in which task i was
\* scheduled.
RanInWindow(i) == Cardinality({k \in 1..Len(hist.ran[i]) : hist.ran[i][k] = 1})

\* C29: at the end of every tick, each task's recent_cpu_ticks is the number
\* of ticks among the last DYNAMIC_INFERENCE_WINDOW in which the task was
\* scheduled, and it is not negative.
C29_SlidingWindowLoad ==
    EndOfTick =>
        \A i \in SimTasks :
            /\ ctx.tasks[i].recent_cpu_ticks = RanInWindow(i)
            /\ ctx.tasks[i].recent_cpu_ticks >= 0

\* C30: under DYNAMIC, when sim_select_task_dynamic is about to be called, a
\* task scheduled in more than DYNAMIC_LOAD_THRESHOLD of the recent ticks is
\* scored as a PERFORMANCE task (+12 on a P-core, -8 on an E-core) and any
\* other task as an EFFICIENCY task (+12 on an E-core, -6 on a P-core).
C30_ScoredByRecentLoad ==
    (stype = SCHED_DYNAMIC /\ sphase = "select") =>
        \A i \in SimTasks :
            IF RanInWindow(i) > DYNAMIC_LOAD_THRESHOLD
            THEN /\ dynamic_type_score(ctx.tasks[i], CPU_TYPE_PCORE) = 12
                 /\ dynamic_type_score(ctx.tasks[i], CPU_TYPE_ECORE) = -8
            ELSE /\ dynamic_type_score(ctx.tasks[i], CPU_TYPE_ECORE) = 12
                 /\ dynamic_type_score(ctx.tasks[i], CPU_TYPE_PCORE) = -6


(***************************************************************************)
(* Claims on the inference of the NUMA node                                *)
(***************************************************************************)
\* The ticks of the run in which task i had a CPU of its preferred node.
OnPreferredNode(i) == Scheduled(i) - hist.cross[i]

\* C31: a task's inferred_numa_locked is set exactly when the task has had a
\* tick on a CPU of its preferred_numa; until then inferred_numa_node is 0, and
\* from then on it is preferred_numa; within a run the lock is never released
\* and a locked inferred_numa_node never changes.
C31_StickyNumaLock ==
    /\ [](\A i \in SimTasks :
            /\ ctx.tasks[i].inferred_numa_locked <=> OnPreferredNode(i) > 0
            /\ ~ctx.tasks[i].inferred_numa_locked => ctx.tasks[i].inferred_numa_node = 0
            /\ ctx.tasks[i].inferred_numa_locked =>
                  ctx.tasks[i].inferred_numa_node = ctx.tasks[i].preferred_numa)
    /\ [][~sim_start =>
            \A i \in SimTasks :
                ctx.tasks[i].inferred_numa_locked =>
                    /\ ctx.tasks[i].inferred_numa_locked'
                    /\ ctx.tasks[i].inferred_numa_node' = ctx.tasks[i].inferred_numa_node]_vars

\* In one run a task of node 1 has learned its node after ticks on node 0,
\* while another task of node 1 has run on node 0 only and is not locked.
C31_Witness ==
    /\ sphase = "finalize"
    /\ \E i, j \in SimTasks :
          /\ ctx.tasks[i].preferred_numa = 1
          /\ ctx.tasks[i].inferred_numa_locked
          /\ ctx.tasks[i].inferred_numa_node = 1
          /\ hist.cross[i] > 0
          /\ ctx.tasks[j].preferred_numa = 1
          /\ ~ctx.tasks[j].inferred_numa_locked
          /\ hist.cross[j] > 0


(***************************************************************************)
(* Claims on the latency samples                                           *)
(***************************************************************************)
\* C32: the samples taken are one per job of the LOW_LATENCY task that has had
\* a CPU, each 1000 us times the ticks between the job's release and its first
\* tick on a CPU: latency_samples is the number of such jobs, latency_total_us
\* and latency_max_us are the sum and the maximum of those waits, at most one
\* released job has not had a CPU yet, and a finished run reports the maximum
\* as max_jitter_us.
C32_OneSamplePerJob ==
    /\ ctx.latency_samples = hist.begun
    /\ ctx.latency_total_us = SIM_TICK_US * hist.wsum
    /\ ctx.latency_max_us = SIM_TICK_US * hist.wmax
    /\ hist.released - hist.begun \in {0, 1}
    /\ (sphase = "idle" /\ nrun > 0) =>
          stats.intent_stats[PROFILE_LOW_LATENCY].max_jitter_us = SIM_TICK_US * hist.wmax

\* A finished run in which two jobs were released and sampled, each job had a
\* later tick on a CPU that added no sample, and a job waited a tick.
C32_Witness ==
    /\ sphase = "idle"
    /\ hist.released = 2
    /\ ctx.latency_samples = 2
    /\ hist.extra = 2
    /\ stats.intent_stats[PROFILE_LOW_LATENCY].max_jitter_us = SIM_TICK_US


(***************************************************************************)
(* Claims on idle CPUs                                                     *)
(***************************************************************************)
\* The tasks that are ready in the tick in progress, and the cells of the
\* assignment that hold a task.
ReadyTasks == {i \in SimTasks : ctx.tasks[i].ready}
BusyCells == {k \in 1..Len(assigned) : assigned[k] # -1}

\* The smaller of two numbers.
Min(a, b) == IF a < b THEN a ELSE b

\* C39: while the CPUs of a tick are given their tasks, a CPU is idle only if
\* every ready task has a lower-numbered CPU of this tick; when all CPUs have
\* been served, the busy CPUs are min(NUM_CPUS, number of ready tasks) and no
\* idle CPU has a busy CPU above it.
C39_WorkConserving ==
    sphase \in {"select", "update"} =>
        /\ \A k \in 1..Len(assigned) :
              assigned[k] = -1 =>
                  \A i \in ReadyTasks : \E j \in 1..(k - 1) : assigned[j] = i
        /\ sphase = "update" =>
              /\ Cardinality(BusyCells) = Min(NUM_CPUS, Cardinality(ReadyTasks))
              /\ \A k \in 1..Len(assigned) :
                    assigned[k] = -1 => \A j \in k..Len(assigned) : assigned[j] = -1

\* Under HTAS a tick with three ready tasks: CPUs 0..2 busy, CPU 3 idle.
C39_Witness ==
    /\ sphase = "update"
    /\ stype = SCHED_HTAS
    /\ Cardinality(ReadyTasks) = NUM_CPUS - 1
    /\ assigned[NUM_CPUS] = -1
    /\ \A k \in 1..(NUM_CPUS - 1) : assigned[k] # -1


(***************************************************************************)
(* Claims on htas_select_next                                              *)
(***************************************************************************)
\* The processes of table P that are READY or RUNNING and may run on CPU k: a
\* process without scheduler state may run on every CPU, any other one on the
\* CPUs whose bit is set in its cpu_affinity_mask.
C40_Eligible(P, k) ==
    {p \in DOMAIN P :
        /\ P[p].state \in {PROC_READY, PROC_RUNNING}
        /\ \/ P[p].htas_info.null
           \/ (P[p].htas_info.cpu_affinity_mask \div (2 ^ k)) % 2 = 1}

\* The sum a process is ranked by on CPU k; 0 without scheduler state.
C40_Sum(P, p, k) ==
    IF P[p].htas_info.null THEN 0
    ELSE P[p].htas_info.priority_boost + P[p].htas_info.priority_boost_aging
           + (IF P[p].htas_info.preferred_numa_node = g_cpu_topology[k].numa_node
              THEN 5 ELSE 0)

\* r is the eligible process of the highest sum, the first of them in the
\* table; no process when none is eligible.
C40_IsBest(P, k, r) ==
    IF C40_Eligible(P, k) = {} THEN r = NoProc
    ELSE /\ r \in C40_Eligible(P, k)
         /\ \A j \in C40_Eligible(P, k) :
               /\ C40_Sum(P, j, k) <= C40_Sum(P, r, k)
               /\ C40_Sum(P, j, k) = C40_Sum(P, r, k) => r <= j

\* C40: in every tick under a policy other than BASELINE, the process
\* htas_select_next(g_current_cpu) returned is the process eligible for that CPU
\* with the highest sum priority_boost + priority_boost_aging + 5 for the
\* CPU's node, the lowest table index on ties, and no process exactly when no
\* runnable process is eligible; so it never has an affinity mask without
\* the CPU's bit.
C40_SelectNextRespectsAffinity ==
    [][(g_tick_counter' = g_tick_counter + 1 /\ g_current_scheduler # SCHED_BASELINE)
          => C40_IsBest(procs, g_current_cpu, plast'[1].next)]_vars

\* A tick in which the process returned has a lower sum than a runnable
\* process whose mask excludes the CPU.
C40_Witness ==
    /\ plast # <<>>
    /\ plast[1].op = "tick"
    /\ plast[1].sched # SCHED_BASELINE
    /\ plast[1].next # NoProc
    /\ \E p \in Procs :
          /\ plast[1].procs[p].state \in {PROC_READY, PROC_RUNNING}
          /\ p \notin C40_Eligible(plast[1].procs, plast[1].cpu)
          /\ C40_Sum(plast[1].procs, p, plast[1].cpu)
                > C40_Sum(plast[1].procs, plast[1].next, plast[1].cpu)

(***************************************************************************)
(* Claims on starvation at the process level                               *)
(***************************************************************************)
\* C35: under SCHED_HTAS with a tick that keeps coming, every READY process
\* with a profile is eventually the process htas_pick_next_process selects.
C35_AgingPreventsStarvation ==
    \A p \in Procs :
        (procs[p].state = PROC_READY /\ ~procs[p].htas_info.null)
            ~> (plast # <<>> /\ plast[1].next = p)

(***************************************************************************)
(* Claims on kthread_create                                                *)
(***************************************************************************)
\* The slots in 1.. that are UNUSED, and the slots that are RUNNING.
FreeSlots(t) == {i \in WorkerSlots : t[i].state = T_UNUSED}
RunningIn(t) == {i \in Slots : t[i].state = T_RUNNING}

\* C33: a kthread_create call that returns a slot returns the lowest UNUSED
\* slot in 1.., leaves it READY at INTERACTIVE with wait_ticks 0 and the
\* INTERACTIVE quantum and changes no other slot; with no UNUSED slot the call
\* returns -1; a call that returns -1 changes no slot; no call changes current
\* or the set of RUNNING slots.
C33_CreateFillsLowestSlot ==
    [][(sel = <<>> /\ sel' # <<>>) =>
          LET ret == sel'[1]
          IN /\ ret \in FreeSlots(th) \cup {-1}
             /\ FreeSlots(th) = {} => ret = -1
             /\ ret # -1 =>
                   /\ \A j \in FreeSlots(th) : ret <= j
                   /\ th'[ret] = [state |-> T_READY,
                                  priority |-> SCHED_PRIORITY_INTERACTIVE,
                                  slice_left |-> priority_quantum[SCHED_PRIORITY_INTERACTIVE],
                                  wait_ticks |-> 0]
                   /\ \A j \in Slots \ {ret} : th'[j] = th[j]
             /\ ret = -1 => th' = th
             /\ current' = current
             /\ RunningIn(th') = RunningIn(th)]_vars

\* A call has returned slot 1 while slot 2 was free as well and the
\* bootstrap thread was RUNNING.
C33_Witness ==
    /\ sel = <<1>>
    /\ th[1].state = T_READY
    /\ th[1].priority = SCHED_PRIORITY_INTERACTIVE
    /\ th[2].state = T_UNUSED
    /\ th[0].state = T_RUNNING

\* C34: a slot that is not UNUSED is not UNUSED after any call, so the UNUSED
\* slots only become fewer, one per successful kthread_create; once no slot
\* in 1.. is UNUSED no kthread_create can succeed any more.
C34_SlotsNeverFreed ==
    /\ [][/\ \A i \in Slots : th[i].state # T_UNUSED => th'[i].state # T_UNUSED
          /\ Cardinality(FreeSlots(th)) - Cardinality(FreeSlots(th')) \in {0, 1}]_vars
    /\ [](FreeSlots(th) = {} => ~ENABLED kthread_create_ok)

\* Every slot has been given a thread, a worker runs and the threads have
\* been switched and re-prioritised since.
C34_Witness ==
    /\ FreeSlots(th) = {}
    /\ current # 0
    /\ \E i \in WorkerSlots : th[i].state = T_READY /\ th[i].priority = SCHED_PRIORITY_BATCH

(***************************************************************************)
(* Claims on the bootstrap thread                                          *)
(***************************************************************************)
\* C37: once slot 0 is READY it is READY after every call and never RUNNING
\* or current again; kthread_create, sched_yield and sched_tick leave its
\* priority, wait_ticks and slice_left as they are, and the only call that
\* changes them is an accepted sched_set_priority(0, priority).
C37_BootstrapNeverRunsAgain ==
    [][th[0].state = T_READY =>
          /\ th'[0].state = T_READY
          /\ current' # 0
          /\ \/ th'[0] = th[0]
             \/ \E priority \in PriorityArgs : sched_set_priority(0, priority)]_vars

\* The bootstrap thread is READY with what sched_init and the switch gave
\* it, while a worker at REALTIME runs and another has waited.
C37_Witness ==
    /\ th[0] = [state |-> T_READY, priority |-> SCHED_PRIORITY_BATCH,
                slice_left |-> priority_quantum[SCHED_PRIORITY_BATCH], wait_ticks |-> 0]
    /\ current # 0
    /\ th[current].priority = SCHED_PRIORITY_REALTIME
    /\ \E i \in WorkerSlots : th[i].state = T_READY /\ th[i].wait_ticks > 0

(***************************************************************************)
(* Claims on the time slice                                                *)
(***************************************************************************)
\* Between calls every thread has a slice within its quantum, a READY thread
\* a full one, and a thread that has just been switched in a full one.
SliceWithinQuantum ==
    /\ \A i \in Slots :
          th[i].state # T_UNUSED =>
              /\ 1 <= th[i].slice_left
              /\ th[i].slice_left <= priority_quantum[th[i].priority]
    /\ \A i \in WorkerSlots :
          th[i].state = T_READY => th[i].slice_left = priority_quantum[th[i].priority]

SwitchedInFull ==
    current' # current =>
        th'[current'].slice_left = priority_quantum[th'[current'].priority]

\* C38 as claimed: the slices are within the quanta as above, and the RUNNING
\* thread has never run through more than priority_quantum[priority] ticks
\* in a row while a thread in slots 1.. was READY.
C38_QuantumBoundsRun ==
    /\ [](SliceWithinQuantum /\ age.run <= priority_quantum[th[current].priority])
    /\ [][SwitchedInFull]_vars

\* C38 amended: the slices are within the quanta as above, and the RUNNING
\* thread has never run through more than priority_quantum[priority] ticks
\* in a row, while a thread in slots 1.. was READY, since the last
\* sched_set_priority call on it; the ticks run and the slice left never
\* exceed the quantum together.
C38_QuantumBoundsRunSinceSet ==
    /\ [](/\ SliceWithinQuantum
          /\ age.since <= priority_quantum[th[current].priority]
          /\ age.since + th[current].slice_left <= priority_quantum[th[current].priority])
    /\ [][SwitchedInFull]_vars

\* A worker has used its INTERACTIVE quantum but for one tick while another
\* worker was READY.
C38_Witness ==
    /\ current # 0
    /\ th[current].priority = SCHED_PRIORITY_INTERACTIVE
    /\ th[current].slice_left = 1
    /\ age.since = priority_quantum[SCHED_PRIORITY_INTERACTIVE] - 1
    /\ \E i \in WorkerSlots : th[i].state = T_READY

(***************************************************************************)
(* Claims on starvation of kernel threads                                  *)
(***************************************************************************)
\* C36: with the timer tick coming again and again and no sched_set_priority
\* call, every thread in slots 1.. that is READY is RUNNING at some later
\* time.
C36_ReadyThreadRuns ==
    \A i \in FairWorkers : (th[i].state = T_READY) ~> (th[i].state = T_RUNNING)

\* A worker runs at REALTIME while every other worker is READY and has waited
\* through some ticks.
C36_Witness ==
    /\ current \in FairWorkers
    /\ th[current].priority = SCHED_PRIORITY_REALTIME
    /\ \A i \in FairWorkers \ {current} :
          /\ th[i].state = T_READY
          /\ th[i].wait_ticks \in 1..(AGING_THRESHOLD - 2)

=============================================================================
